---- MODULE Spec2Model ----
(***************************************************************************)
(* BSONColumn (src/src/mongo/bson/bson_column.h): the instruction format,  *)
(* the DeltaStore, the forward iterator and the Builder.                   *)
(*                                                                         *)
(* Bytes are naturals 0..255 and buffers are sequences of bytes.  A        *)
(* uint64_t is its eight bytes, least significant first, so that 64-bit    *)
(* arithmetic wraps modulo 2^64 without leaving the range of TLC's         *)
(* integers.  A position in a buffer is a 0-based offset, as a pointer     *)
(* difference in the source.                                               *)
(***************************************************************************)
EXTENDS Integers, Sequences, FiniteSets, TLC

\* ------------------------------------------------------------------ bounds
MaxLen == 4
MaxIndex == 3
MaxDone == 2
IterLen == 2
IterGap == 1
MaxSteps == 128
RejectLen == 2
DecodeLen == 2
SparseLen == 12
WideLen == 2
RunLen == 16
ApplyLen == 2
MixedLen == 5
MixedDecodeLen == 3
KeysLen == 3

\* ------------------------------------------------- uint64_t as eight bytes
Zero64 == <<0, 0, 0, 0, 0, 0, 0, 0>>
One64 == <<1, 0, 0, 0, 0, 0, 0, 0>>

\* int -> uint64_t conversion of a non-negative int below 2^31
U64(n) ==
  <<n % 256, (n \div 256) % 256, (n \div 65536) % 256, (n \div 16777216) % 256,
    0, 0, 0, 0>>

\* a + b modulo 2^64
Add64(a, b) ==
  LET c[i \in 0..8] == IF i = 0 THEN 0 ELSE (a[i] + b[i] + c[i - 1]) \div 256
  IN  [i \in 1..8 |-> (a[i] + b[i] + c[i - 1]) % 256]

\* -a modulo 2^64
Neg64(a) == Add64([i \in 1..8 |-> 255 - a[i]], One64)

\* a - b modulo 2^64
Sub64(a, b) == Add64(a, Neg64(b))

\* a / 16 and a / 128
Div16(a) ==
  [i \in 1..8 |-> (a[i] \div 16) + 16 * (IF i < 8 THEN a[i + 1] % 16 ELSE 0)]
Div128(a) ==
  [i \in 1..8 |-> (a[i] \div 128) + 2 * (IF i < 8 THEN a[i + 1] % 128 ELSE 0)]

\* a * 16 and a * 128 modulo 2^64
Mul16(a) ==
  [i \in 1..8 |-> 16 * (a[i] % 16) + (IF i > 1 THEN a[i - 1] \div 16 ELSE 0)]
Mul128(a) ==
  [i \in 1..8 |-> 128 * (a[i] % 2) + (IF i > 1 THEN a[i - 1] \div 2 ELSE 0)]

\* uint64_t -> int conversion: the low 32 bits, two's complement
ToInt(a) ==
  a[1] + 256 * a[2] + 65536 * a[3]
    + 16777216 * (IF a[4] >= 128 THEN a[4] - 256 ELSE a[4])

\* a << (4 * n), modulo 2^64: whole bytes first, then one nibble if n is odd
ShiftNibbles(a, n) ==
  LET b == [i \in 1..8 |-> IF i > n \div 2 THEN a[i - (n \div 2)] ELSE 0]
  IN  IF n % 2 = 1 THEN Mul16(b) ELSE b

\* ------------------------------------------------------------ BSONElement
\* Type tags of the element types the model's columns hold (bsontypes.h).
NumberDouble == 1
NumberInt == 16

\* An element is its type tag, its field name (without the NUL) and its value
\* bytes.  The default-constructed BSONElement is the one-byte EOO element.
EOO == [type |-> 0, name |-> <<>>, value |-> <<>>]

eoo(e) == e.type = 0

valuesize(e) == Len(e.value)

\* BSONElement::size(): type byte, field name with its NUL, value
size(e) == IF eoo(e) THEN 1 ELSE 1 + Len(e.name) + 1 + Len(e.value)

binaryEqualValues(a, b) == a.type = b.type /\ a.value = b.value

\* The value size of the fixed-size types; -1 stands for a tag the model does
\* not size (variable-size and unknown types).
FixedValueSize(t) ==
  CASE t \in {1, 9, 17, 18} -> 8
    [] t = 16 -> 4
    [] t = 8 -> 1
    [] t \in {6, 10, 127, 255} -> 0
    [] t = 7 -> 12
    [] t = 19 -> 16
    [] OTHER -> -1

\* BSONElement(d, 1, -1, CachedSizeTag): the element that starts at offset p of
\* buf, its name taken to be empty and its size computed from its type tag.
\* ok is false when the tag is not sized or the element runs past the buffer.
ElementAt(buf, p) ==
  IF p >= Len(buf) THEN [ok |-> FALSE, elem |-> EOO]
  ELSE LET t == buf[p + 1]
           n == FixedValueSize(t)
       IN  IF t = 0 THEN [ok |-> TRUE, elem |-> EOO]
           ELSE IF n < 0 \/ p + 2 + n > Len(buf) THEN [ok |-> FALSE, elem |-> EOO]
           ELSE [ok |-> TRUE,
                 elem |-> [type |-> t, name |-> <<>>,
                           value |-> SubSeq(buf, p + 3, p + 2 + n)]]

\* ------------------------------------------------------------ Instruction
Literal0 == 0
Literal1 == 1
Skip == 2
Delta == 3
Copy == 4
SetNegDelta == 5
SetDelta == 6

\* nibble k (0 is the lowest) of a
Nibble(a, k) == (a[(k \div 2) + 1] \div (IF k % 2 = 0 THEN 1 ELSE 16)) % 16

\* the number of turns of `while (arg % 16 == 0 && _op % 16 < 15)` when at
\* most max turns are left: the zero nibbles at the low end of arg
ZeroNibbles(arg, max) ==
  LET nz == {k \in 0..(max - 1) : Nibble(arg, k) # 0}
  IN  IF nz = {} THEN max ELSE CHOOSE k \in nz : \A j \in nz : k <= j

\* a >> (4 * n): n turns of `arg /= 16`, whole bytes first
ShiftRightNibbles(a, n) ==
  LET b == [i \in 1..8 |-> IF i + (n \div 2) <= 8 THEN a[i + (n \div 2)] ELSE 0]
  IN  IF n % 2 = 1 THEN Div16(b) ELSE b

\* a constructor loop that also drops one zero bit below the factor
FactorShift_bits(op, arg) ==
  [op |-> op + ZeroNibbles(arg, 15 - (op % 16)),
   arg |-> IF Nibble(arg, ZeroNibbles(arg, 15 - (op % 16))) % 2 = 0
             THEN [ShiftRightNibbles(arg, ZeroNibbles(arg, 15 - (op % 16)))
                     EXCEPT ![1] = @ \div 2]
             ELSE ShiftRightNibbles(arg, ZeroNibbles(arg, 15 - (op % 16)))]

\* the loop of the SetDelta/SetNegDelta constructor: move trailing zero
\* nibbles of arg into the low nibble of _op
FactorShift(op, arg) ==
  [op |-> op + ZeroNibbles(arg, 15 - (op % 16)),
   arg |-> ShiftRightNibbles(arg, ZeroNibbles(arg, 15 - (op % 16)))]

\* Instruction(Kind kind, uint64_t arg); ok is false when an invariant fails
Instruction(k, arg) ==
  IF k \in {Skip, Delta, Copy}
    THEN [_op |-> k * 16 + (arg[1] % 16), _prefix |-> Div16(arg), ok |-> TRUE]
    ELSE LET f == FactorShift(k * 16, arg)
         IN  [_op |-> f.op, _prefix |-> Sub64(f.arg, One64), ok |-> arg # Zero64]

kind(insn) == insn._op \div 16

\* Instruction::parse: accumulate prefix bytes up to the opcode byte.  next is
\* the offset after the opcode byte; ok is false when the scan leaves buf.
RECURSIVE ParseFrom(_, _, _)
ParseFrom(buf, p, prefix) ==
  IF p >= Len(buf)
    THEN [ok |-> FALSE, next |-> p,
          insn |-> [_op |-> 0, _prefix |-> prefix, ok |-> TRUE]]
  ELSE LET op == buf[p + 1]
       IN  IF op >= 128
             THEN ParseFrom(buf, p + 1, [Mul128(prefix) EXCEPT ![1] = @ + (op % 128)])
             ELSE [ok |-> TRUE, next |-> p + 1,
                   insn |-> [_op |-> op, _prefix |-> prefix, ok |-> TRUE]]

parse(buf, p) == ParseFrom(buf, p, Zero64)

\* number of base-128 digits of a prefix
RECURSIVE Digits128(_)
Digits128(prefix) == IF prefix = Zero64 THEN 0 ELSE 1 + Digits128(Div128(prefix))

\* a size that counts the opcode byte only
InsnSize_opcodeOnly(insn) == 1

\* Instruction::size()
InsnSize(insn) == IF insn._op # 0 THEN 1 + Digits128(insn._prefix) ELSE 1

\* prefix bytes with the least significant digit first
RECURSIVE PrefixBytes_lsbFirst(_)
PrefixBytes_lsbFirst(prefix) ==
  IF prefix = Zero64 THEN <<>>
  ELSE <<(prefix[1] % 128) + 128>> \o PrefixBytes_lsbFirst(Div128(prefix))

\* Instruction::append: the prefix bytes, most significant first, then _op
RECURSIVE PrefixBytes(_)
PrefixBytes(prefix) ==
  IF prefix = Zero64 THEN <<>>
  ELSE PrefixBytes(Div128(prefix)) \o <<(prefix[1] % 128) + 128>>

InsnBytes(insn) == PrefixBytes(insn._prefix) \o <<insn._op>>

\* a count argument that drops the prefix and keeps the low nibble only
countArg_lowNibble(insn) == [Zero64 EXCEPT ![1] = insn._op % 16]

countArg(insn) == [Mul16(insn._prefix) EXCEPT ![1] = @ + (insn._op % 16)]

\* a delta argument without the shift
deltaArg_unshifted(insn) == Add64(insn._prefix, One64)

deltaArg(insn) == ShiftNibbles(Add64(insn._prefix, One64), insn._op % 16)

\* a choice that always takes the SetDelta form
makeDelta_positive(delta) == Instruction(SetDelta, delta)

makeDelta(delta) ==
  LET pos == Instruction(SetDelta, delta)
      neg == Instruction(SetNegDelta, Neg64(delta))
  IN  IF InsnSize(neg) < InsnSize(pos) THEN neg ELSE pos

\* ------------------------------------------------------------- DeltaStore
valueOffset == 2
maxValueSize == 8

\* n copies of byte g
Fill(n, g) == [i \in 1..n |-> g]

\* a delta taken from the first eight bytes of values of any length
calculateDelta_anyLength(base, modified) ==
  IF base.type # modified.type \/ valuesize(base) # valuesize(modified)
    THEN Zero64
    ELSE Sub64([i \in 1..8 |-> IF i <= valuesize(base) THEN modified.value[i] ELSE 0],
               [i \in 1..8 |-> IF i <= valuesize(base) THEN base.value[i] ELSE 0])

\* a delta taken the other way round
calculateDelta_reversed(base, modified) ==
  IF base.type # modified.type \/ valuesize(base) # valuesize(modified)
       \/ valuesize(base) > maxValueSize \/ valuesize(base) = 0
    THEN Zero64
    ELSE Sub64(base.value \o Fill(8 - valuesize(base), 0),
               modified.value \o Fill(8 - valuesize(base), 0))

\* DeltaStore::calculateDelta
calculateDelta(base, modified) ==
  LET sz == valuesize(base)
  IN  IF base.type # modified.type \/ sz # valuesize(modified)
           \/ sz > maxValueSize \/ sz = 0
        THEN Zero64
        ELSE Sub64(modified.value \o Fill(8 - sz, 0), base.value \o Fill(8 - sz, 0))

\* an application that adds byte by byte, without the carries
applyDelta_noCarry(store, deltaIndex, base, delta, g) ==
  [ok |-> valuesize(base) <= maxValueSize /\ deltaIndex <= Len(store),
   store |-> store,
   elem |-> [type |-> base.type, name |-> <<>>,
             value |-> [i \in 1..valuesize(base) |-> (base.value[i] + delta[i]) % 256]]]

\* an application that writes its result over a cell the store holds
applyDelta_overwrite(store, deltaIndex, base, delta, g) ==
  IF valuesize(base) > maxValueSize \/ deltaIndex > Len(store)
    THEN [ok |-> FALSE, store |-> store, elem |-> EOO]
    ELSE [ok |-> TRUE,
          store |-> IF deltaIndex = Len(store)
                      THEN Append(store, <<base.type, 0>>
                                           \o Add64(base.value \o Fill(8 - valuesize(base), g), delta))
                      ELSE [store EXCEPT ![deltaIndex + 1] =
                              <<base.type, 0>>
                                \o Add64(base.value \o Fill(8 - valuesize(base), g), delta)],
          elem |-> [type |-> base.type, name |-> <<>>,
                    value |-> SubSeq(Add64(base.value \o Fill(8 - valuesize(base), g), delta),
                                     1, valuesize(base))]]

\* DeltaStore::applyDelta on the store `store` (a sequence of 10-byte cells).
\* `value` is not initialised before the memcpy of the base's `size` value
\* bytes, so its upper 8 - size bytes are indeterminate: g is their content.
\* ok is false when one of the three invariants fails.
applyDelta(store, deltaIndex, base, delta, g) ==
  LET sz == valuesize(base)
  IN  IF sz > maxValueSize \/ deltaIndex > Len(store)
        THEN [ok |-> FALSE, store |-> store, elem |-> EOO]
        ELSE LET value == Add64(base.value \o Fill(8 - sz, g), delta)
                 elem == <<base.type, 0>> \o value
                 st == IF deltaIndex = Len(store) THEN Append(store, elem) ELSE store
                 cell == st[deltaIndex + 1]
             IN  [ok |-> elem = cell, store |-> st,
                  elem |-> [type |-> cell[1], name |-> <<>>,
                            value |-> SubSeq(cell, valueOffset + 1, valueOffset + sz)]]

\* -------------------------------------------------------------- BSONColumn
BinData == 5
Column == 7
BSONObjMaxUserSize == 16777216

\* strlen: the number of bytes from offset p up to the first NUL (the length
\* of buf when there is none)
RECURSIVE strlen(_, _)
strlen(buf, p) ==
  IF p >= Len(buf) \/ buf[p + 1] = 0 THEN 0 ELSE 1 + strlen(buf, p + 1)

\* BSONElement(const char* d): as ElementAt, with the field name read up to
\* its NUL
ElementCtor(buf, p) ==
  IF p >= Len(buf) THEN [ok |-> FALSE, elem |-> EOO]
  ELSE LET t == buf[p + 1]
           n == FixedValueSize(t)
           l == strlen(buf, p + 1)
       IN  IF t = 0 THEN [ok |-> TRUE, elem |-> EOO]
           ELSE IF n < 0 \/ p + 2 + l + n > Len(buf) THEN [ok |-> FALSE, elem |-> EOO]
           ELSE [ok |-> TRUE,
                 elem |-> [type |-> t, name |-> SubSeq(buf, p + 2, p + 1 + l),
                           value |-> SubSeq(buf, p + 3 + l, p + 2 + l + n)]]

\* A column is the bytes of the element it refers to (_bin): the one EOO byte
\* of a default-constructed column, or a BinData element (type, name, NUL,
\* int32 length, subtype, body).
DefaultColumn == <<0>>

objsize(col) == Len(col)

\* offset of the body in the column's bytes: _bin.binData()
bodyOffset(col) == IF col[1] = 0 THEN 0 ELSE 1 + strlen(col, 1) + 1 + 4 + 1

Body(col) == SubSeq(col, bodyOffset(col) + 1, Len(col))

\* little-endian int32 at offset p (values below 2^31)
Int32At(buf, p) ==
  buf[p + 1] + 256 * buf[p + 2] + 65536 * buf[p + 3] + 16777216 * buf[p + 4]

\* a validity test that does not look at the final byte
isValidBin_anyFinalByte(bin, sz, last) ==
  \/ bin[1] = 0
  \/ /\ bin[1] = BinData
     /\ bin[bodyOffset(bin)] = Column
     /\ sz >= 0
     /\ sz <= BSONObjMaxUserSize

\* BSONColumn::isValid for _bin at the start of the bytes bin, with sz the
\* value of objsize() and last the byte objdata()[objsize() - 1]
isValidBin(bin, sz, last) ==
  \/ bin[1] = 0
  \/ /\ bin[1] = BinData
     /\ bin[bodyOffset(bin)] = Column
     /\ sz >= 0
     /\ sz <= BSONObjMaxUserSize
     /\ last = 0

isValid(col) == isValidBin(col, objsize(col), col[objsize(col)])

\* little-endian int32 at offset p, two's complement
SignedInt32At(buf, p) ==
  buf[p + 1] + 256 * buf[p + 2] + 65536 * buf[p + 3]
    + 16777216 * (IF buf[p + 4] >= 128 THEN buf[p + 4] - 256 ELSE buf[p + 4])

\* BSONElement::size() of the EOO or BinData element at the start of buf: for
\* BinData, the header and the count in the int32 length field
rawsize(buf) ==
  IF buf[1] = 0 THEN 1
  ELSE bodyOffset(buf) + SignedInt32At(buf, bodyOffset(buf) - 5)

\* BSONColumn(BSONElement bin), for the element at the start of buf.  buf holds
\* the bytes at hand; a byte of the element past them has the content g.  ok
\* is false when the tassert fails, and then there is no column.
BSONColumnCtor(buf, g) ==
  LET sz == rawsize(buf)
      ok == isValidBin(buf, sz, IF sz >= 1 /\ sz <= Len(buf) THEN buf[sz] ELSE g)
  IN  [ok |-> ok,
       col |-> IF ok THEN SubSeq(buf, 1, IF sz <= Len(buf) THEN sz ELSE Len(buf))
               ELSE <<>>]

\* BSONColumn::isEmpty
isEmpty(col) == objsize(col) <= 5

\* ------------------------------------------------------ BSONColumn::iterator
\* iterator(elem, store) for the element at offset p of the column's bytes
IteratorAt(col, p) ==
  LET e == ElementCtor(col, p)
  IN  [_cur |-> e.elem, _insn |-> p + size(e.elem), _count |-> 0, _index |-> 0,
       _deltaIndex |-> 0, _delta |-> One64, ok |-> e.ok]

begin(col) == IteratorAt(col, bodyOffset(col))

end(col) == IteratorAt(col, objsize(col) - 1)

\* a comparison that looks at the residual count only
IterEq_countOnly(a, b) == a._count = b._count

\* iterator::operator==
IterEq(a, b) == a._insn = b._insn /\ a._count = b._count

\* int -> uint64_t conversion
IntTo64(n) == IF n >= 0 THEN U64(n) ELSE Neg64(U64(0 - n))

\* `_cur = _store->applyDelta(_deltaIndex++, _cur, _delta)`: the iterator and
\* the store after the application a
StoreApplied(it, a) ==
  [it |-> [it EXCEPT !._cur = a.elem, !._deltaIndex = @ + 1, !.ok = a.ok],
   store |-> a.store]

ApplyCurrent(it, store, g) ==
  StoreApplied(it, applyDelta(store, it._deltaIndex, it._cur, it._delta, g))

\* the iterator after a failed invariant or a read outside the column's bytes
Failed(it, store) == [it |-> [it EXCEPT !.ok = FALSE], store |-> store]

\* case Literal0, Literal1 of _nextInsn: p is the parsed opcode, e the element
\* at the opcode byte
OnLiteral(it, col, store, p, e) ==
  IF p.insn._op # 0 /\ (p.next >= Len(col) \/ col[p.next + 1] # 0)
    THEN Failed(it, store)
  ELSE IF ~e.ok THEN Failed(it, store)
  ELSE [it |-> [it EXCEPT !._cur = e.elem, !._count = 1,
                          !._insn = p.next - 1 + size(e.elem)],
        store |-> store]

\* a count that is taken without the invariant on _count
OnCount_unchecked(it, store, p, c) ==
  [it |-> [it EXCEPT !._insn = p.next, !._count = c], store |-> store]

\* case Delta, Copy of _nextInsn, with the invariant on _count
OnCount(it, store, p, c) ==
  [it |-> [it EXCEPT !._insn = p.next, !._count = c, !.ok = c # 0],
   store |-> store]

\* case SetNegDelta, SetDelta of _nextInsn, d the new delta
OnSetDelta(it, store, g, p, d) ==
  ApplyCurrent([it EXCEPT !._insn = p.next, !._delta = d, !._count = 1], store, g)

\* the switch of _nextInsn on the parsed instruction p
OnInsn(it, col, store, g, p) ==
  IF ~p.ok THEN Failed(it, store)
  ELSE IF kind(p.insn) \in {Literal0, Literal1}
    THEN OnLiteral(it, col, store, p, ElementAt(col, p.next - 1))
  ELSE IF kind(p.insn) = Skip
    THEN [it |-> [it EXCEPT !._insn = p.next,
                            !._index = ToInt(Add64(IntTo64(it._index),
                                                   countArg(p.insn)))],
          store |-> store]
  ELSE IF kind(p.insn) = Delta
    THEN OnCount(it, store, p, ToInt(Neg64(countArg(p.insn))))
  ELSE IF kind(p.insn) = Copy
    THEN OnCount(it, store, p, ToInt(countArg(p.insn)))
  ELSE IF kind(p.insn) = SetNegDelta
    THEN OnSetDelta(it, store, g, p, Neg64(deltaArg(p.insn)))
  ELSE IF kind(p.insn) = SetDelta
    THEN OnSetDelta(it, store, g, p, deltaArg(p.insn))
  ELSE Failed(it, store)

\* iterator::_nextInsn on the bytes col, with the DeltaStore `store`.  The
\* result is the iterator and the store; the iterator's ok is false when an
\* invariant fails or a read leaves the column's bytes.
_nextInsn(it, col, store, g) == OnInsn(it, col, store, g, parse(col, it._insn))

\* the loop `while (!_count) _nextInsn();` of operator++, on st = [it, store]
RECURSIVE FetchLoop(_, _, _)
FetchLoop(st, col, g) ==
  IF ~st.it.ok \/ st.it._count # 0 THEN st
  ELSE FetchLoop(_nextInsn(st.it, col, st.store, g), col, g)

\* operator++ after the loop: ++_index, then one copy or one delta consumed
Consume(f, g) ==
  IF ~f.it.ok THEN f
  ELSE IF f.it._count > 0
    THEN [it |-> [f.it EXCEPT !._index = @ + 1, !._count = @ - 1],
          store |-> f.store]
    ELSE ApplyCurrent([f.it EXCEPT !._index = @ + 1, !._count = @ + 1], f.store, g)

\* iterator::operator++ (pre-increment)
Increment(it, col, store, g) ==
  Consume(FetchLoop([it |-> it, store |-> store], col, g), g)

\* iterator::nextDifferent
\* the nextDifferent() that drops the residual count and keeps the index
nextDifferent_keepIndex(it, col, store, g) ==
  IF it._count > 0
    THEN Increment([it EXCEPT !._count = 0], col, store, g)
    ELSE Increment(it, col, store, g)

nextDifferent(it, col, store, g) ==
  IF it._count > 0
    THEN Increment([it EXCEPT !._index = @ + it._count, !._count = 0], col, store, g)
    ELSE Increment(it, col, store, g)

\* The loops `for (it = begin(); it != end(); ++it)` of expand() and toString()
\* and `while (it != endIt && it.index() != field) ++it;` of operator[], as
\* one scan: st is the iterator, the store and the (index, element) pairs
\* visited so far; stop says whether the scan also stops at index `field`.
ScanDone(st, col, stop, field) ==
  \/ ~st.it.ok
  \/ IterEq(st.it, end(col))
  \/ stop /\ st.it._index = field

\* the scan state after ++it gave n: the element left behind is visited
Visited(st, n) ==
  [it |-> n.it, store |-> n.store,
   pairs |-> Append(st.pairs, [index |-> st.it._index, elem |-> st.it._cur])]

\* one turn of the loop
ScanStep(st, col, g, stop, field) ==
  IF ScanDone(st, col, stop, field) THEN st
  ELSE Visited(st, Increment(st.it, col, st.store, g))

\* up to n turns of the loop (halving n keeps the evaluation shallow)
RECURSIVE ScanSteps(_, _, _, _, _, _)
ScanSteps(st, col, g, stop, field, n) ==
  IF ScanDone(st, col, stop, field) THEN st
  ELSE IF n <= 1 THEN ScanStep(st, col, g, stop, field)
  ELSE ScanSteps(ScanSteps(st, col, g, stop, field, n \div 2),
                 col, g, stop, field, n - (n \div 2))

Scan(col, store, g, stop, field) ==
  ScanSteps([it |-> begin(col), store |-> store, pairs |-> <<>>],
            col, g, stop, field, MaxSteps)

\* what a scan that ran to end() visited; ok is false when the iteration
\* failed or did not reach end() within MaxSteps steps
Iterated(st, col) ==
  [ok |-> st.it.ok /\ IterEq(st.it, end(col)), pairs |-> st.pairs,
   store |-> st.store]

\* the pairs a full forward iteration visits
Iterate(col, store, g) == Iterated(Scan(col, store, g, FALSE, 0), col)

Counted(r) == [ok |-> r.ok, count |-> Len(r.pairs), store |-> r.store]

\* BSONColumn::nFields
nFields(col, store, g) == Counted(Iterate(col, store, g))

\* `return *it;` of operator[]
Deref(st, col, field) ==
  [ok |-> st.it.ok /\ ScanDone(st, col, TRUE, field), elem |-> st.it._cur,
   store |-> st.store]

\* BSONColumn::operator[]
Lookup(col, store, g, field) == Deref(Scan(col, store, g, TRUE, field), col, field)

\* ----------------------------------------------------- BSONColumn::Builder
\* The Builder's fields as a record B: _b is the whole BufBuilder buffer and
\* _last the element _last refers to (in the buffer or in _deltaElem).  log
\* lists what the current call wrote: the kind of write, the value of
\* _deferrals at the moment of the write, the offset and the bytes.
\* ok is false once an invariant of the Builder has failed.

FieldName == <<99, 111, 108>>

\* Builder(baseBuilder, fieldName) on a buffer that holds `base` already
Builder(base, fieldName) ==
  [_b |-> base \o <<BinData>> \o fieldName \o <<0>> \o <<0, 0, 0, 0>> \o <<Column>>,
   _last |-> EOO, _delta |-> Zero64, _offset |-> Len(base), _index |-> 0,
   _deferrals |-> 0, log |-> <<>>, ok |-> TRUE]

\* one write to the buffer (BufBuilder::appendNum/appendBuf, Instruction::append)
Emit(B, w, bytes) ==
  [B EXCEPT !._b = @ \o bytes,
            !.log = Append(@, [w |-> w, deferrals |-> B._deferrals,
                               at |-> Len(B._b), bytes |-> bytes])]

\* the flush of copies that writes Copy(n) and keeps the counter
_emitDeferredCopies_keepCount(B) ==
  IF B._deferrals > 0
    THEN Emit(B, "Copy", InsnBytes(Instruction(Copy, IntTo64(B._deferrals))))
    ELSE B

_emitDeferredCopies(B) ==
  IF B._deferrals > 0
    THEN [Emit(B, "Copy", InsnBytes(Instruction(Copy, IntTo64(B._deferrals))))
            EXCEPT !._deferrals = 0]
    ELSE B

\* a flush that forgets the pending deltas
_emitDeferredDeltas_dropped(B) ==
  IF B._deferrals < 0 THEN [B EXCEPT !._deferrals = 0] ELSE B

_emitDeferredDeltas(B) ==
  IF B._deferrals < 0
    THEN [Emit(B, "Delta", InsnBytes(Instruction(Delta, IntTo64(0 - B._deferrals))))
            EXCEPT !._deferrals = 0]
    ELSE B

_emitDeferrals(B) == _emitDeferredDeltas(_emitDeferredCopies(B))

_valueOffset(B) == B._offset + 1 + strlen(B._b, B._offset) + 4 + 1

\* the int32 n as four little-endian bytes (n >= 0)
Int32Bytes(n) ==
  <<n % 256, (n \div 256) % 256, (n \div 65536) % 256, (n \div 16777216) % 256>>

\* a length update that leaves the terminator byte out of the count
_updateBinDataSize_beforeTerminator(B) ==
  LET vo == _valueOffset(B)
      sz == Int32Bytes(Len(B._b) - vo - 1)
  IN  [B EXCEPT !._b = [i \in 1..Len(B._b) |->
                          IF i >= vo - 4 /\ i <= vo - 1 THEN sz[i - (vo - 5)]
                          ELSE B._b[i]]]

_updateBinDataSize(B) ==
  LET vo == _valueOffset(B)
      sz == Int32Bytes(Len(B._b) - vo)
  IN  [B EXCEPT !._b = [i \in 1..Len(B._b) |->
                          IF i >= vo - 4 /\ i <= vo - 1 THEN sz[i - (vo - 5)]
                          ELSE B._b[i]]]

\* a literal writer that gives the EOO element an empty field name too
_emitLiteral_namedEOO(B, elem) ==
  LET B1 == _emitDeferrals(B)
      B2 == IF eoo(elem)
              THEN _updateBinDataSize(Emit(B1, "EOO", <<elem.type, 0>>))
              ELSE Emit(B1, "Literal", <<elem.type, 0>> \o elem.value)
  IN  [B2 EXCEPT !._last = [type |-> elem.type, name |-> <<>>, value |-> elem.value],
                 !._delta = Zero64]

\* Store a literal BSONElement, resets delta.
\* the literal that leaves the current delta as it was
_emitLiteral_keepDelta(B, elem) ==
  LET B1 == _emitDeferrals(B)
      B2 == IF eoo(elem)
              THEN _updateBinDataSize(Emit(B1, "EOO", <<elem.type>>))
              ELSE Emit(B1, "Literal", <<elem.type, 0>> \o elem.value)
  IN  [B2 EXCEPT !._last = [type |-> elem.type, name |-> <<>>, value |-> elem.value]]

_emitLiteral(B, elem) ==
  LET B1 == _emitDeferrals(B)
      B2 == IF eoo(elem)
              THEN _updateBinDataSize(Emit(B1, "EOO", <<elem.type>>))
              ELSE Emit(B1, "Literal", <<elem.type, 0>> \o elem.value)
  IN  [B2 EXCEPT !._last = [type |-> elem.type, name |-> <<>>, value |-> elem.value],
                 !._delta = Zero64]

\* a gap writer that flushes the deferrals before it looks at the index
_emitSkips_flushFirst(B, index) ==
  IF index = B._index THEN B
  ELSE LET B1 == _emitDeferrals(B)
       IN  IF ~(index > B._index) THEN [B1 EXCEPT !.ok = FALSE]
           ELSE [Emit(B1, "Skip", InsnBytes(Instruction(Skip, IntTo64(index - B1._index))))
                   EXCEPT !._index = index]

_emitSkips(B, index) ==
  IF index = B._index THEN B
  ELSE IF ~(index > B._index) THEN [B EXCEPT !.ok = FALSE]
  ELSE LET B1 == _emitDeferrals(B)
       IN  [Emit(B1, "Skip", InsnBytes(Instruction(Skip, IntTo64(index - B1._index))))
              EXCEPT !._index = index]

_isDone(B) == eoo(B._last) /\ Len(B._b) < _valueOffset(B)

_maybeUndoDone(B) ==
  IF ~_isDone(B) THEN B ELSE [B EXCEPT !._b = SubSeq(@, 1, Len(@) - 1)]

\* a Builder that never defers a copy
_tryCopy_never(B, elem) == [done |-> FALSE, B |-> B]

\* a copy step that leaves a pending Delta run unwritten
_tryCopy_noFlush(B, elem) ==
  IF ~binaryEqualValues(elem, B._last) \/ eoo(B._last)
    THEN [done |-> FALSE, B |-> B]
    ELSE [done |-> TRUE, B |-> [B EXCEPT !._deferrals = @ + 1]]

\* Given the last value, tries to add elem using a copy.
_tryCopy(B, elem) ==
  IF ~binaryEqualValues(elem, B._last) \/ eoo(B._last)
    THEN [done |-> FALSE, B |-> B]
    ELSE [done |-> TRUE,
          B |-> [_emitDeferredDeltas(B) EXCEPT !._deferrals = @ + 1]]

\* a delta that is written whatever its size
_tryDelta_anySize(B, elem) ==
  LET delta == calculateDelta(B._last, elem)
      B1 == _emitDeferredCopies(B)
      instruction == makeDelta(delta)
      stored == [type |-> elem.type, name |-> <<>>, value |-> elem.value]
  IN  IF delta = Zero64 THEN [done |-> FALSE, B |-> B]
      ELSE IF delta = B1._delta
        THEN [done |-> TRUE,
              B |-> [B1 EXCEPT !._deferrals = @ - 1, !._last = stored]]
      ELSE [done |-> TRUE,
            B |-> [Emit(B1, "SetDelta", InsnBytes(instruction))
                     EXCEPT !._delta = delta, !._last = stored]]

\* Given the last value, tries to add elem using a delta.
_tryDelta(B, elem) ==
  LET delta == calculateDelta(B._last, elem)
      B1 == _emitDeferredCopies(B)
      instruction == makeDelta(delta)
      stored == [type |-> elem.type, name |-> <<>>, value |-> elem.value]
  IN  IF delta = Zero64 THEN [done |-> FALSE, B |-> B]
      ELSE IF delta = B1._delta
        THEN [done |-> TRUE,
              B |-> [B1 EXCEPT !._deferrals = @ - 1, !._last = stored]]
      ELSE IF InsnSize(instruction) >= size(elem) THEN [done |-> FALSE, B |-> B1]
      ELSE [done |-> TRUE,
            B |-> [Emit(B1, IF kind(instruction) = SetDelta THEN "SetDelta"
                                                            ELSE "SetNegDelta",
                        InsnBytes(instruction))
                     EXCEPT !._delta = delta, !._last = stored]]

\* Builder::append(int index, BSONElement elem)
append(B, index, elem) ==
  LET B1 == _emitSkips(_maybeUndoDone(B), index)
      c == _tryCopy(B1, elem)
      d == _tryDelta(B1, elem)
      B2 == IF c.done THEN c.B
            ELSE IF d.done THEN d.B
            ELSE _emitLiteral(d.B, elem)
  IN  IF ~B1.ok THEN B1
      ELSE IF eoo(elem) THEN B2 ELSE [B2 EXCEPT !._index = @ + 1]

\* the Builder part of Builder::done()
done(B) == IF ~_isDone(B) THEN append(B, B._index, EOO) ELSE B

\* BSONColumn(BSONElement(_b.buf() + _offset)): the bytes of the BinData
\* element that starts at offset `offset` of buf
ColumnAt(buf, offset) ==
  LET l == strlen(buf, offset + 1)
      n == Int32At(buf, offset + 1 + l + 1)
  IN  SubSeq(buf, offset + 1, offset + 1 + l + 1 + 4 + 1 + n)

\* ------------------------------------------------------------------ inputs
\* Elements appended in the model: the int32 values 0, 1, 2 and 0x12345679
\* (whose delta to the others needs a six-byte instruction) and the double 72.0.
I0 == [type |-> NumberInt, name |-> <<>>, value |-> <<0, 0, 0, 0>>]
I1 == [type |-> NumberInt, name |-> <<>>, value |-> <<1, 0, 0, 0>>]
I2 == [type |-> NumberInt, name |-> <<>>, value |-> <<2, 0, 0, 0>>]
IBig == [type |-> NumberInt, name |-> <<>>, value |-> <<121, 86, 52, 18>>]
D72 == [type |-> NumberDouble, name |-> <<>>, value |-> <<0, 0, 0, 0, 0, 0, 82, 64>>]

Elems == {I0, I1, I2, IBig, D72}

\* contents of the uninitialised bytes read by applyDelta
Garbage == {0, 255}

\* exampleData of bson_column_test.cpp, and the BinData element "col" around it
exampleData ==
  <<1, 0, 0, 0, 0, 0, 0, 0, 82, 64, 134, 67, 129, 107, 50, 34, 65, 0>>

ExampleColumn ==
  <<BinData>> \o FieldName \o <<0>> \o Int32Bytes(Len(exampleData)) \o <<Column>>
    \o exampleData

\* A stream that parses to completion: the literal double 72.0, Skip with the
\* count 0xFFFFFFFE (prefix bytes FF FF FF FF, opcode 2E), Copy(1), terminator.
wideSkipData ==
  <<1, 0, 0, 0, 0, 0, 0, 0, 82, 64, 255, 255, 255, 255, 46, 65, 0>>

WideSkipColumn ==
  <<BinData>> \o FieldName \o <<0>> \o Int32Bytes(Len(wideSkipData)) \o <<Column>>
    \o wideSkipData

\* ------------------------------------------------------------------- state
VARIABLES
  _b,          \* Builder: the buffer the column is built in
  _last,       \* Builder: last element appended to the column
  _delta,      \* Builder: current delta
  _offset,     \* Builder: start of the column in the buffer
  _index,      \* Builder: index of the next element to add
  _deferrals,  \* Builder: > 0 pending copies, < 0 pending deltas
  written,     \* the writes of the latest Builder call (B.log)
  hist,        \* the calls made on the Builder so far
  col,         \* the BSONColumn at hand: default-constructed or returned by done()
  store,       \* col's DeltaStore (_deltas)
  it,          \* an iterator over col
  pairs,       \* the (index, element) pairs `it` has passed since begin()
  found        \* the argument and result of operator[], when it was the latest call

vars ==
  <<_b, _last, _delta, _offset, _index, _deferrals, written, hist, col, store,
    it, pairs, found>>

builderVars == <<_b, _last, _delta, _offset, _index, _deferrals, written, hist>>

\* the Builder's fields as a record
Bld ==
  [_b |-> _b, _last |-> _last, _delta |-> _delta, _offset |-> _offset,
   _index |-> _index, _deferrals |-> _deferrals, log |-> <<>>, ok |-> TRUE]

SetBuilder(B) ==
  /\ _b' = B._b
  /\ _last' = B._last
  /\ _delta' = B._delta
  /\ _offset' = B._offset
  /\ _index' = B._index
  /\ _deferrals' = B._deferrals
  /\ written' = B.log

\* the Builder's fields at the start of a behaviour
InitBuilder(B) ==
  /\ _b = B._b
  /\ _last = B._last
  /\ _delta = B._delta
  /\ _offset = B._offset
  /\ _index = B._index
  /\ _deferrals = B._deferrals
  /\ written = B.log

NoLookup == [field |-> -1, ok |-> TRUE, elem |-> EOO]

\* the latest call made on the Builder
LastOp == IF hist = <<>> THEN "none" ELSE hist[Len(hist)].op

Appends(h) == SelectSeq(h, LAMBDA o : o.op = "append")
Dones(h) == SelectSeq(h, LAMBDA o : o.op = "done")

\* ------------------------------------------------------- Builder behaviour
Init ==
  /\ InitBuilder(Builder(<<>>, FieldName))
  /\ hist = <<>>
  /\ col = DefaultColumn
  /\ store = <<>>
  /\ it = begin(DefaultColumn)
  /\ pairs = <<>>
  /\ found = NoLookup

\* builder.append(index, elem) with index >= _index
BuilderAppend ==
  /\ Len(Appends(hist)) < MaxLen
  /\ \E index \in _index..MaxIndex, elem \in Elems :
       /\ SetBuilder(append(Bld, index, elem))
       /\ hist' = Append(hist, [op |-> "append", index |-> index, elem |-> elem])
  /\ UNCHANGED <<col, store, it, pairs, found>>

\* col = builder.done()
BuilderDone ==
  /\ Len(Dones(hist)) < MaxDone
  /\ LET B == done(Bld)
     IN  /\ SetBuilder(B)
         /\ col' = ColumnAt(B._b, B._offset)
  /\ hist' = Append(hist, [op |-> "done"])
  /\ store' = <<>>
  /\ UNCHANGED <<it, pairs, found>>

Next == BuilderAppend \/ BuilderDone

Spec == Init /\ [][Next]_vars

\* --------------------------------------------- Builder with rejected calls
\* builder.append(index, elem) with index < _index.  A failed invariant ends
\* the program: no call follows a rejected one.
BuilderAppendBelow ==
  /\ LastOp # "rejected"
  /\ \E index \in 0..(_index - 1), elem \in Elems :
       LET B == append(Bld, index, elem)
       IN  /\ SetBuilder(B)
           /\ hist' = Append(hist, [op |-> IF B.ok THEN "append" ELSE "rejected",
                                    index |-> index, elem |-> elem])
  /\ UNCHANGED <<col, store, it, pairs, found>>

NextReject ==
  \/ LastOp # "rejected" /\ Len(hist) < RejectLen /\ Next
  \/ BuilderAppendBelow

SpecReject == Init /\ [][NextReject]_vars

\* ------------------------------------------------- Builder on sparse arrays
\* Arrays of up to SparseLen elements that start at index 0, alternate between
\* the int32 values 0 and 0x12345679, and leave out zero or one index before
\* each element; then one done().
BuilderAppendSparse ==
  /\ Dones(hist) = <<>>
  /\ Len(Appends(hist)) < SparseLen
  /\ \E gap \in (IF hist = <<>> THEN {0} ELSE {0, 1}), elem \in {I0, IBig} \ {_last} :
       /\ SetBuilder(append(Bld, _index + gap, elem))
       /\ hist' = Append(hist, [op |-> "append", index |-> _index + gap, elem |-> elem])
  /\ UNCHANGED <<col, store, it, pairs, found>>

NextSparse ==
  \/ BuilderAppendSparse
  \/ Dones(hist) = <<>> /\ BuilderDone

SpecSparse == Init /\ [][NextSparse]_vars

\* ----------------------------------------- Builder on wide deltas and gaps
\* Elements whose deltas have trailing zero nibbles or the top bit set: the
\* int32 values 0, 1, 16, 256 and 0x01000000, and the doubles 72.0, 72.5
\* and -72.0; and the int32 0x12345679, whose delta to 0 takes six bytes,
\* without a field name and with the field name "a".
WideElems ==
  { I0, I1, D72,
    [type |-> NumberInt, name |-> <<>>, value |-> <<16, 0, 0, 0>>],
    [type |-> NumberInt, name |-> <<>>, value |-> <<0, 1, 0, 0>>],
    [type |-> NumberInt, name |-> <<>>, value |-> <<0, 0, 0, 1>>],
    [type |-> NumberDouble, name |-> <<>>, value |-> <<0, 0, 0, 0, 0, 32, 82, 64>>],
    [type |-> NumberDouble, name |-> <<>>, value |-> <<0, 0, 0, 0, 0, 0, 82, 192>>],
    IBig,
    [type |-> NumberInt, name |-> <<97>>, value |-> <<121, 86, 52, 18>>] }

\* numbers of indices left out before an element
WideGaps == {0, 1, 300}

BuilderAppendWide ==
  /\ Len(Appends(hist)) < WideLen
  /\ \E gap \in (IF hist = <<>> THEN {0} ELSE WideGaps), elem \in WideElems :
       /\ SetBuilder(append(Bld, _index + gap, elem))
       /\ hist' = Append(hist, [op |-> "append", index |-> _index + gap, elem |-> elem])
  /\ UNCHANGED <<col, store, it, pairs, found>>

NextWide ==
  \/ BuilderAppendWide
  \/ Dones(hist) = <<>> /\ BuilderDone

SpecWide == Init /\ [][NextWide]_vars

\* ------------------------------------------------------- Builder on runs
\* Runs of up to RunLen elements at consecutive indices from 0: a first
\* element, then each element the one before plus a step chosen with the
\* first (0 for copies), the sum cut to the size of the value; then done().
I10 == [type |-> NumberInt, name |-> <<>>, value |-> <<10, 0, 0, 0>>]

RunStarts == {I0, I10, D72}

RunSteps == {Zero64, One64, Neg64(One64), U64(16), U64(305419897)}

\* the element e with step added to its value
Stepped(e, step) ==
  [type |-> e.type, name |-> <<>>,
   value |-> SubSeq(Add64(e.value \o Fill(8 - Len(e.value), 0), step),
                    1, Len(e.value))]

\* builder.append(elem) with the next element of the run
Continue(elem, step) ==
  /\ SetBuilder(append(Bld, _index, elem))
  /\ hist' = Append(hist, [op |-> "append", index |-> _index, elem |-> elem,
                           step |-> step])

BuilderAppendRun ==
  /\ Dones(hist) = <<>>
  /\ Len(hist) < RunLen
  /\ IF hist = <<>>
       THEN \E elem \in RunStarts, step \in RunSteps : Continue(elem, step)
       ELSE Continue(Stepped(hist[Len(hist)].elem, hist[1].step), hist[1].step)
  /\ UNCHANGED <<col, store, it, pairs, found>>

NextRun ==
  \/ BuilderAppendRun
  \/ Dones(hist) = <<>> /\ BuilderDone

SpecRun == Init /\ [][NextRun]_vars

\* ------------------------------------------- elements of mixed type and size
\* Appends of elements that calculateDelta accepts (int32) and rejects: a null
\* has no payload, an ObjectId has 12 bytes, more than maxValueSize.
NullElem == [type |-> 10, name |-> <<>>, value |-> <<>>]
OidElem == [type |-> 7, name |-> <<>>, value |-> <<1, 2, 3, 4, 5, 6, 7, 8, 9, 10, 11, 12>>]
OidNext == [type |-> 7, name |-> <<>>, value |-> <<2, 2, 3, 4, 5, 6, 7, 8, 9, 10, 11, 12>>]

MixedElems == {I0, I1, I2, NullElem, OidElem, OidNext}

\* builder.append(index, elem) at the next index or one past it, below MixedLen
BuilderAppendMixed ==
  /\ Dones(hist) = <<>>
  /\ \E gap \in {0, 1}, elem \in MixedElems :
       /\ _index + gap < MixedLen
       /\ SetBuilder(append(Bld, _index + gap, elem))
       /\ hist' = Append(hist, [op |-> "append", index |-> _index + gap, elem |-> elem])
  /\ UNCHANGED <<col, store, it, pairs, found>>

NextMixed ==
  \/ BuilderAppendMixed
  \/ Dones(hist) = <<>> /\ BuilderDone

SpecMixed == Init /\ [][NextMixed]_vars

\* ------------------------------------------ elements with a type tag >= 0x20
\* BSONElements whose type byte is not the opcode of a literal: MaxKey (127,
\* the high nibble of no instruction) and MinKey (-1, the byte 0xFF).  Neither
\* has a payload.  append() takes any BSONElement.
MaxKeyElem == [type |-> 127, name |-> <<>>, value |-> <<>>]
MinKeyElem == [type |-> 255, name |-> <<>>, value |-> <<>>]

KeyElems == {I0, I1, MaxKeyElem, MinKeyElem}

\* builder.append(elem), at the next index
BuilderAppendKeys ==
  /\ Dones(hist) = <<>>
  /\ Len(hist) < KeysLen
  /\ \E elem \in KeyElems :
       /\ SetBuilder(append(Bld, _index, elem))
       /\ hist' = Append(hist, [op |-> "append", index |-> _index, elem |-> elem])
  /\ UNCHANGED <<col, store, it, pairs, found>>

NextKeys ==
  \/ BuilderAppendKeys
  \/ Dones(hist) = <<>> /\ BuilderDone

SpecKeys == Init /\ [][NextKeys]_vars

\* ------------------------------------------------------ iterator behaviour
\* The columns iterated: a default-constructed column, the example column of
\* the test, and every column the Builder returns for up to IterLen appends
\* that start at index 0 and leave gaps of at most IterGap.
RECURSIVE IterInputs(_)
IterInputs(n) ==
  IF n = 0 THEN {<<>>}
  ELSE LET prev == IterInputs(n - 1)
       IN  prev \cup
           {Append(s, [op |-> "append",
                       index |-> (IF s = <<>> THEN 0 ELSE s[Len(s)].index + 1 + gap),
                       elem |-> e]) :
              s \in {x \in prev : Len(x) = n - 1}, gap \in 0..IterGap, e \in Elems}

\* the Builder after the appends of s
RECURSIVE AppendAll(_, _)
AppendAll(B, s) ==
  IF s = <<>> THEN B
  ELSE AppendAll(append([B EXCEPT !.log = <<>>], Head(s).index, Head(s).elem), Tail(s))

\* the Builder after the appends of s and one done()
Build(s) == done([AppendAll(Builder(<<>>, FieldName), s) EXCEPT !.log = <<>>])

\* positions looked up with operator[]
LookupFields == (0..(MaxIndex + 1)) \cup {100, 103, 105, 106}

InitIter ==
  /\ \/ /\ col \in {DefaultColumn, ExampleColumn, WideSkipColumn}
        /\ InitBuilder(Builder(<<>>, FieldName))
        /\ hist = <<>>
     \/ \E s \in IterInputs(IterLen) :
          /\ InitBuilder(Build(s))
          /\ hist = Append(s, [op |-> "done"])
          /\ col = ColumnAt(_b, _offset)
  /\ store = <<>>
  /\ it = begin(col)
  /\ pairs = <<>>
  /\ found = NoLookup

\* ++it, for an iterator that is not at end()
IterAdvance ==
  /\ it.ok
  /\ ~IterEq(it, end(col))
  /\ \E g \in Garbage :
       LET n == Increment(it, col, store, g)
       IN  /\ it' = n.it
           /\ store' = n.store
  /\ pairs' = Append(pairs, [index |-> it._index, elem |-> it._cur])
  /\ found' = NoLookup
  /\ UNCHANGED <<builderVars, col>>

\* the copies of the current element that nextDifferent passes over
PassedOver(i) ==
  IF i._count > 0
    THEN [k \in 1..i._count |-> [index |-> i._index + k, elem |-> i._cur]]
    ELSE <<>>

\* it.nextDifferent(), for an iterator that is not at end()
IterNextDifferent ==
  /\ it.ok
  /\ ~IterEq(it, end(col))
  /\ \E g \in Garbage :
       LET n == nextDifferent(it, col, store, g)
       IN  /\ it' = n.it
           /\ store' = n.store
  /\ pairs' = Append(pairs, [index |-> it._index, elem |-> it._cur]) \o PassedOver(it)
  /\ found' = NoLookup
  /\ UNCHANGED <<builderVars, col>>

\* it = col.begin(): a new iterator on the same column and store
IterBegin ==
  /\ it # begin(col) \/ found # NoLookup
  /\ it' = begin(col)
  /\ pairs' = <<>>
  /\ found' = NoLookup
  /\ UNCHANGED <<builderVars, col, store>>

\* col[field], called by a caller that has just taken begin()
IterLookup ==
  /\ it = begin(col)
  /\ found = NoLookup
  /\ \E field \in LookupFields, g \in Garbage :
       LET r == Lookup(col, store, g, field)
       IN  /\ found' = [field |-> field, ok |-> r.ok, elem |-> r.elem]
           /\ store' = r.store
  /\ UNCHANGED <<builderVars, col, it, pairs>>

NextIter == IterAdvance \/ IterNextDifferent \/ IterBegin \/ IterLookup

SpecIter == InitIter /\ [][NextIter]_vars

\* ------------------------------------------------- iteration of raw streams
\* Columns that no Builder wrote: the literal int32 0, then up to DecodeLen
\* of the pieces below, then the terminator.
Fragments ==
  { <<65>>,                       \* Copy(1)
    <<66>>,                       \* Copy(2)
    <<49>>,                       \* Delta(1)
    <<96>>,                       \* SetDelta(1)
    <<33>>,                       \* Skip(1)
    <<16, 0, 1, 0, 0, 0>>,        \* literal int32 1
    <<64>>,                       \* Copy(0)
    <<128, 64>>,                  \* Copy(0) behind a zero prefix byte
    <<48>>,                       \* Delta(0)
    <<112>>,                      \* opcode with high nibble 7
    <<127>>,                      \* opcode with high nibble 7
    <<16, 97, 0, 1, 0, 0, 0>>,    \* literal int32 1 with the field name "a"
    <<143, 111>>,                 \* SetDelta(16 << 60)
    <<143, 95>> }                 \* SetNegDelta(16 << 60)

RECURSIVE DecodeStreams(_)
DecodeStreams(n) ==
  IF n = 0 THEN {<<16, 0, 0, 0, 0, 0>>}
  ELSE LET prev == DecodeStreams(n - 1)
       IN  prev \cup {s \o f : s \in {x \in prev : Len(x) >= 6 + n - 1}, f \in Fragments}

\* the BinData element "col" around the stream data and its terminator
ColumnOf(data) ==
  <<BinData>> \o FieldName \o <<0>> \o Int32Bytes(Len(data) + 1) \o <<Column>>
    \o data \o <<0>>

InitDecode ==
  /\ \E data \in DecodeStreams(DecodeLen) : col = ColumnOf(data)
  /\ InitBuilder(Builder(<<>>, FieldName))
  /\ hist = <<>>
  /\ store = <<>>
  /\ it = begin(col)
  /\ pairs = <<>>
  /\ found = NoLookup

NextDecode == IterAdvance \/ IterNextDifferent

SpecDecode == InitDecode /\ [][NextDecode]_vars

\* ------------------------------------------------- construction of columns
\* Elements handed to the constructor: EOO, and elements with the name "col",
\* a type, an int32 length field, a subtype and a body.  The length fields
\* are the length of the body, -1, -5, -2^31, and the two that make the
\* element's size BSONObjMaxUserSize and BSONObjMaxUserSize + 1.
CtorBodies ==
  { <<0>>, <<16, 0, 0, 0, 0, 0, 0>>, <<16, 0, 0, 0, 0, 1>>, <<16, 0, 1, 0, 0, 0, 65>> }

CtorLengths(body) ==
  { Int32Bytes(Len(body)), <<255, 255, 255, 255>>, <<251, 255, 255, 255>>,
    <<0, 0, 0, 128>>, <<246, 255, 255, 0>>, <<247, 255, 255, 0>> }

CtorInputs ==
  {<<0>>} \cup
  { <<t>> \o FieldName \o <<0>> \o l \o <<sub>> \o body :
      t \in {BinData, NumberInt, 2}, sub \in {Column, 0},
      l \in UNION {CtorLengths(b) : b \in CtorBodies}, body \in CtorBodies }

InitCtor ==
  /\ _b \in CtorInputs
  /\ LET B == Builder(<<>>, FieldName)
     IN  /\ _last = B._last
         /\ _delta = B._delta
         /\ _offset = B._offset
         /\ _index = B._index
         /\ _deferrals = B._deferrals
         /\ written = B.log
  /\ hist = <<>>
  /\ col = DefaultColumn
  /\ store = <<>>
  /\ it = begin(DefaultColumn)
  /\ pairs = <<>>
  /\ found = NoLookup

\* col = BSONColumn(element in _b); a failed tassert leaves the caller
\* without a new column
Construct ==
  /\ hist = <<>>
  /\ \E g \in Garbage :
       LET r == BSONColumnCtor(_b, g)
       IN  /\ col' = IF r.ok THEN r.col ELSE col
           /\ hist' = <<[op |-> "construct", ok |-> r.ok, tail |-> g]>>
  /\ UNCHANGED <<_b, _last, _delta, _offset, _index, _deferrals, written,
                 store, it, pairs, found>>

NextCtor == Construct

SpecCtor == InitCtor /\ [][NextCtor]_vars

\* ------------------------------------------------- Instruction round trips
\* Arguments handed to the Instruction constructor and to makeDelta: small
\* counts, the values around the prefix lengths 0, 1, 2 and 3, powers of 16,
\* 2^49, 2^63, 2^64 - 1 and the negations of some of them.
InsnArgs ==
  { U64(n) : n \in {0, 1, 2, 15, 16, 17, 32, 127, 128, 256, 2032, 2047, 2048, 2064,
                    4096, 16384, 262143, 262144, 305419897} }
    \cup { Neg64(U64(n)) : n \in {1, 2, 16, 128, 256, 4096} }
    \cup { <<0, 0, 0, 0, 0, 0, 1, 0>>, <<0, 0, 0, 0, 0, 0, 2, 0>>,
           <<0, 0, 0, 0, 0, 0, 0, 16>>, <<0, 0, 0, 0, 0, 0, 0, 128>>,
           <<255, 255, 255, 255, 0, 0, 0, 0>>, <<1, 0, 0, 0, 0, 0, 0, 128>> }

InitInsn ==
  /\ InitBuilder(Builder(<<>>, FieldName))
  /\ written = <<>>
  /\ hist = <<>>
  /\ col = DefaultColumn
  /\ store = <<>>
  /\ it = begin(DefaultColumn)
  /\ pairs = <<>>
  /\ found = NoLookup

\* Instruction insn(kind, arg); insn.size().  The constructor's invariant
\* keeps a zero argument away from SetDelta and SetNegDelta.
InsnConstruct ==
  /\ hist = <<>>
  /\ \E k \in {Skip, Delta, Copy, SetNegDelta, SetDelta}, arg \in InsnArgs :
       /\ Instruction(k, arg).ok
       /\ hist' = <<[op |-> "Instruction", kind |-> k, arg |-> arg,
                     insn |-> Instruction(k, arg),
                     size |-> InsnSize(Instruction(k, arg))]>>
  /\ UNCHANGED <<_b, _last, _delta, _offset, _index, _deferrals, written,
                 col, store, it, pairs, found>>

\* auto insn = Instruction::makeDelta(delta); insn.size()
InsnMakeDelta ==
  /\ hist = <<>>
  /\ \E delta \in InsnArgs \ {Zero64} :
       hist' = <<[op |-> "makeDelta", kind |-> kind(makeDelta(delta)), arg |-> delta,
                  insn |-> makeDelta(delta), size |-> InsnSize(makeDelta(delta))]>>
  /\ UNCHANGED <<_b, _last, _delta, _offset, _index, _deferrals, written,
                 col, store, it, pairs, found>>

\* insn.append(_b): the bytes go to the end of the buffer, and the loop
\* leaves the instruction's _prefix at zero
InsnAppend ==
  /\ LastOp \in {"Instruction", "makeDelta"}
  /\ _b' = _b \o InsnBytes(hist[Len(hist)].insn)
  /\ written' = <<[w |-> "Instruction", deferrals |-> _deferrals, at |-> Len(_b),
                   bytes |-> InsnBytes(hist[Len(hist)].insn)]>>
  /\ hist' = Append(hist, [op |-> "append",
                           insn |-> [hist[Len(hist)].insn EXCEPT !._prefix = Zero64]])
  /\ UNCHANGED <<_last, _delta, _offset, _index, _deferrals, col, store, it,
                 pairs, found>>

\* Instruction::parse(_b.buf() + at), at the offset the append wrote to
InsnParse ==
  /\ LastOp = "append"
  /\ hist' = Append(hist, [op |-> "parse", insn |-> parse(_b, written[1].at).insn,
                           next |-> parse(_b, written[1].at).next])
  /\ UNCHANGED <<_b, _last, _delta, _offset, _index, _deferrals, written,
                 col, store, it, pairs, found>>

\* the decoder on a column that holds the literal int32 0 and the bytes
\* written: begin(), ++it over the literal, ++it over the instruction
InsnExecute ==
  /\ LastOp = "parse"
  /\ kind(hist[Len(hist)].insn) \in {SetNegDelta, SetDelta}
  /\ col' = ColumnOf(<<NumberInt, 0, 0, 0, 0, 0>> \o written[1].bytes)
  /\ \E g \in Garbage :
       /\ it' = Increment(Increment(begin(col'), col', <<>>, g).it, col',
                          Increment(begin(col'), col', <<>>, g).store, g).it
       /\ store' = Increment(Increment(begin(col'), col', <<>>, g).it, col',
                             Increment(begin(col'), col', <<>>, g).store, g).store
  /\ hist' = Append(hist, [op |-> "execute"])
  /\ UNCHANGED <<_b, _last, _delta, _offset, _index, _deferrals, written,
                 pairs, found>>

NextInsn == InsnConstruct \/ InsnMakeDelta \/ InsnAppend \/ InsnParse \/ InsnExecute

SpecInsn == InitInsn /\ [][NextInsn]_vars

\* ------------------------------------------------- DeltaStore::applyDelta
\* Bases handed to applyDelta: elements with an empty name and a value of 1,
\* 4 and 8 bytes (Bool, NumberInt, NumberDouble), and the deltas added.
ApplyBases ==
  { [type |-> 8, name |-> <<>>, value |-> <<255>>],
    I0,
    [type |-> NumberInt, name |-> <<>>, value |-> <<255, 255, 0, 0>>],
    D72 }

ApplyDeltas ==
  { One64, Neg64(One64), <<0, 0, 0, 0, 1, 0, 0, 0>>, <<0, 0, 0, 0, 0, 0, 2, 0>> }

\* Elements handed to calculateDelta: int32, double and int64 values, a null
\* (no value bytes), two ObjectIds (12 bytes), the strings "", "a" and "b"
\* (5 and 6 bytes), and an int32 with the field name "a".
CalcElems ==
  { I0, IBig, D72,
    [type |-> NumberInt, name |-> <<97>>, value |-> <<1, 0, 0, 0>>],
    [type |-> 18, name |-> <<>>, value |-> <<0, 0, 0, 0, 0, 0, 82, 64>>],
    [type |-> 10, name |-> <<>>, value |-> <<>>],
    [type |-> 7, name |-> <<>>, value |-> <<0, 0, 0, 0, 0, 0, 0, 0, 0, 0, 0, 0>>],
    [type |-> 7, name |-> <<>>, value |-> <<0, 0, 0, 0, 0, 0, 0, 0, 0, 0, 0, 1>>],
    [type |-> 2, name |-> <<>>, value |-> <<1, 0, 0, 0, 0>>],
    [type |-> 2, name |-> <<>>, value |-> <<2, 0, 0, 0, 97, 0>>],
    [type |-> 2, name |-> <<>>, value |-> <<2, 0, 0, 0, 98, 0>>] }

\* the element the latest applyDelta returned, if any
Returned == IF LastOp = "applyDelta" THEN {hist[Len(hist)].elem} ELSE {}

\* the latest call, if it was a calculateDelta
Calculated == IF LastOp = "calculateDelta" THEN {hist[Len(hist)]} ELSE {}

InitApply ==
  /\ InitBuilder(Builder(<<>>, FieldName))
  /\ written = <<>>
  /\ hist = <<>>
  /\ col = DefaultColumn
  /\ store = <<>>
  /\ it = begin(DefaultColumn)
  /\ pairs = <<>>
  /\ found = NoLookup

\* store.applyDelta(deltaIndex, base, delta), for a new cell or a cell the
\* store holds; a failed invariant ends the program
ApplyDelta ==
  /\ Len(hist) < ApplyLen
  /\ LastOp # "failed"
  /\ \E base \in ApplyBases \cup Returned \cup {c.base : c \in Calculated},
        delta \in ApplyDeltas \cup {c.delta : c \in Calculated},
        deltaIndex \in 0..Len(store), g \in Garbage :
       /\ store' = applyDelta(store, deltaIndex, base, delta, g).store
       /\ hist' = Append(hist,
            [op |-> IF applyDelta(store, deltaIndex, base, delta, g).ok
                      THEN "applyDelta" ELSE "failed",
             deltaIndex |-> deltaIndex, base |-> base, delta |-> delta,
             elem |-> applyDelta(store, deltaIndex, base, delta, g).elem])
  /\ UNCHANGED <<_b, _last, _delta, _offset, _index, _deferrals, written,
                 col, it, pairs, found>>

\* DeltaStore::calculateDelta(base, modified), the first call of a caller;
\* base is an element without a name, as the Builder's _last is
CalculateDelta ==
  /\ hist = <<>>
  /\ \E base \in {e \in CalcElems : e.name = <<>>}, modified \in CalcElems :
       hist' = <<[op |-> "calculateDelta", base |-> base, modified |-> modified,
                  delta |-> calculateDelta(base, modified)]>>
  /\ UNCHANGED <<_b, _last, _delta, _offset, _index, _deferrals, written,
                 col, store, it, pairs, found>>

NextApply == ApplyDelta \/ CalculateDelta

SpecApply == InitApply /\ [][NextApply]_vars

\* ------------------------------------------------------------------ claims

\* the column returned by a fresh Builder after the appends of s and done()
BuiltColumn(s) == LET B == Build(s) IN ColumnAt(B._b, B._offset)

\* a full forward iteration of c, on a fresh store, visits exactly the
\* appends of s: the same indices and binary-equal values, in order
Yields(c, s, g) ==
  LET r == Iterate(c, <<>>, g)
  IN  /\ r.ok
      /\ Len(r.pairs) = Len(s)
      /\ \A i \in 1..Len(s) :
           /\ r.pairs[i].index = s[i].index
           /\ binaryEqualValues(r.pairs[i].elem, s[i].elem)

\* C1: after appends with strictly increasing indices to a fresh Builder and
\* one done(), forward iteration of the returned column from begin() to end()
\* yields exactly the appended (index, element) pairs, in order.
C1_RoundTrip ==
  (LastOp = "done" /\ Len(Dones(hist)) = 1)
    => \A g \in Garbage : Yields(col, Appends(hist), g)

\* C2: whenever the Builder writes a literal, a Skip, a SetDelta/SetNegDelta
\* or the terminator byte, the deferral counter is 0 at the moment of the write.
C2_FlushedBeforeWrite ==
  \A i \in 1..Len(written) :
    written[i].w \in {"Literal", "Skip", "SetDelta", "SetNegDelta", "EOO"}
      => written[i].deferrals = 0

\* C3: the first byte of the body of a non-empty column returned by the Builder
\* is the type tag of a literal (opcode kind Literal0 or Literal1), whatever
\* the index of the first appended element.
C3_FirstIsLiteral ==
  (LastOp = "done" /\ Appends(hist) # <<>>)
    => /\ Body(col)[1] # 0
       /\ Body(col)[1] \div 16 \in {Literal0, Literal1}

\* C4: done() called right after done() leaves the buffer with the same bytes
\* and returns a column with the same bytes.
C4_IdempotentDone ==
  [][(LastOp = "done" /\ hist' = Append(hist, [op |-> "done"]))
       => (_b' = _b /\ col' = col)]_vars

\* C5: appending X, done(), appending Y, done() returns the same column bytes
\* as appending X then Y and calling done() once: the append after done()
\* first removes the terminator byte.
C5_AppendAfterDone ==
  (/\ LastOp = "done"
   /\ Len(Dones(hist)) = 2
   /\ hist[Len(hist) - 1].op = "append")
    => col = BuiltColumn(Appends(hist))

\* C6: after done() the deferral counter is 0, the last byte written is 0x00,
\* the int32 length field holds the number of body bytes written (terminator
\* included), and the returned column, which spans the buffer, isValid().
C6_Finish ==
  LastOp = "done"
    => /\ _deferrals = 0
       /\ _b[Len(_b)] = 0
       /\ Int32At(_b, _valueOffset(Bld) - 5) = Len(_b) - _valueOffset(Bld)
       /\ col = SubSeq(_b, _offset + 1, Len(_b))
       /\ isValid(col)

\* a done() that had a pending Copy or Delta run to flush
C6_Witness ==
  /\ LastOp = "done"
  /\ Len(Appends(hist)) >= 2
  /\ \E i \in 1..Len(written) : written[i].w \in {"Copy", "Delta"}

\* C9: appending the pairs that forward iteration of a column returned by the
\* Builder yields to a fresh Builder with the same field name, then done(),
\* gives a column byte-identical to it.
C9_ReEncode ==
  LastOp = "done"
    => \A g \in Garbage :
         LET r == Iterate(col, <<>>, g)
         IN  /\ r.ok
             /\ BuiltColumn(r.pairs) = col

\* C10: an empty column, default-constructed or returned by done() on a Builder
\* nothing was appended to, has the one-byte body 0x00, nFields() = 0 and
\* begin() == end().
C10_Empty ==
  (hist = <<>> \/ hist = <<[op |-> "done"]>>)
    => /\ Body(col) = <<0>>
       /\ \A g \in Garbage :
            LET n == nFields(col, <<>>, g) IN n.ok /\ n.count = 0
       /\ IterEq(begin(col), end(col))

\* the column returned by done() with nothing appended
C10_Witness == hist = <<[op |-> "done"]>> /\ col # DefaultColumn

\* the element a forward iteration of c on a fresh store yields at index pos,
\* EOO when it yields none there
YieldedAt(c, pos) ==
  LET r == Iterate(c, <<>>, 0)
      at == {i \in 1..Len(r.pairs) : r.pairs[i].index = pos}
  IN  IF at = {} THEN EOO ELSE r.pairs[CHOOSE i \in at : TRUE].elem

\* C7: operator[](pos) returns the element forward iteration yields at index
\* pos, and EOO when pos is a skipped position or past the last index.
C7_Lookup ==
  found # NoLookup => (found.ok /\ found.elem = YieldedAt(col, found.field))

\* the doubles of the example
D72_5 == [type |-> NumberDouble, name |-> <<>>, value |-> <<0, 0, 0, 0, 0, 32, 82, 64>>]
D73 == [type |-> NumberDouble, name |-> <<>>, value |-> <<0, 0, 0, 0, 0, 64, 82, 64>>]
D73_5 == [type |-> NumberDouble, name |-> <<>>, value |-> <<0, 0, 0, 0, 0, 96, 82, 64>>]

\* 104 pairs: 72.0 at indices 0..99, 72.5, 73.0, 73.5 at 100, 101, 102, and
\* 73.5 at index `last`
ExamplePairs(last) ==
  [i \in 1..104 |->
     [index |-> IF i <= 103 THEN i - 1 ELSE last,
      elem |-> IF i <= 100 THEN D72
               ELSE IF i = 101 THEN D72_5
               ELSE IF i = 102 THEN D73
               ELSE D73_5]]

C11_IsEmpty == isEmpty(col) <=> Len(Body(col)) = 1

\* one done() after appends that start at index 0 (or no append at all)
BuiltFromZero ==
  /\ LastOp = "done"
  /\ Len(Dones(hist)) = 1
  /\ Appends(hist) # <<>> => hist[1].index = 0

C13_Monotone ==
  [][(Len(pairs') > Len(pairs) /\ it'.ok) => it'._index > it._index]_vars

\* C14: the iterators created from begin() of one column share its DeltaStore
\* and the invariants of applyDelta never fail in any of their advance steps:
\* the index k is at most the store's size and a cell computed again is
\* byte-identical to the one stored at k.
C14_StableStore == it.ok /\ found.ok

\* C15: append(index, elem) with index below the next index is rejected
\* before a byte is written and before the next index, last, delta or
\* deferrals change; with index equal to the next index or above it, the call
\* is accepted (and the next index becomes index + 1).
C15_Rejection ==
  [][(hist' # hist /\ hist'[Len(hist')].op \in {"append", "rejected"})
       => LET call == hist'[Len(hist')]
          IN  IF call.index < _index
                THEN /\ call.op = "rejected"
                     /\ written' = <<>>
                     /\ UNCHANGED <<_b, _last, _delta, _offset, _index, _deferrals>>
                ELSE /\ call.op = "append"
                     /\ _index' = call.index + 1]_vars

\* a call rejected while a Copy run was pending
C15_Witness == LastOp = "rejected" /\ _deferrals > 0

\* the instruction the next fetch loop stops at, from offset p of c: the
\* first one that is not a Skip
RECURSIVE Fetched(_, _, _)
Fetched(c, p, n) ==
  LET q == parse(c, p)
  IN  IF q.ok /\ kind(q.insn) = Skip /\ n > 0 THEN Fetched(c, q.next, n - 1) ELSE q

\* a Copy or Delta with count 0, an opcode above SetDelta, or a literal with
\* a field name
Malformed(c, q) ==
  /\ q.ok
  /\ \/ kind(q.insn) \in {Copy, Delta} /\ countArg(q.insn) = Zero64
     \/ kind(q.insn) > SetDelta
     \/ /\ kind(q.insn) \in {Literal0, Literal1}
        /\ q.insn._op # 0
        /\ c[q.next + 1] # 0

\* C16: an advance that fetches a Copy or Delta with count 0, an opcode whose
\* high nibble is above 6, or a literal whose name byte is not zero, fails;
\* it yields no element.
C16_MalformedFails ==
  [][(it.ok /\ it._count = 0 /\ Malformed(col, Fetched(col, it._insn, MaxSteps)))
       => ~it'.ok]_vars

\* a failed advance, at an opcode above SetDelta that follows a yielded
\* element
C16_Witness ==
  /\ ~it.ok
  /\ Len(pairs) = 2
  /\ kind(Fetched(col, it._insn, MaxSteps).insn) > SetDelta

\* C17: an advance that fetches a SetDelta or SetNegDelta whose delta
\* (prefix + 1) << (4 * shift) is zero modulo 2^64 fails; no zero delta is
\* applied.
C17_ZeroDeltaFails ==
  [][(/\ it.ok
      /\ it._count = 0
      /\ LET q == Fetched(col, it._insn, MaxSteps)
         IN  /\ q.ok
             /\ kind(q.insn) \in {SetDelta, SetNegDelta}
             /\ deltaArg(q.insn) = Zero64)
       => ~it'.ok]_vars

\* the size the element at the start of buf declares, and its final byte
\* (tail, when that byte lies past the bytes at hand)
DeclaredSize(buf) == 1 + 3 + 1 + 4 + 1 + SignedInt32At(buf, 5)
FinalByte(buf, tail) ==
  IF DeclaredSize(buf) \in 1..Len(buf) THEN buf[DeclaredSize(buf)] ELSE tail

\* C18: the constructor succeeds exactly for EOO and for a BinData element of
\* subtype Column whose size is at least 0 and at most BSONObjMaxUserSize and
\* whose final byte is 0x00; when it fails there is no new column.
C18_Construction ==
  LastOp = "construct"
    => /\ hist[1].ok
            <=> \/ _b = <<0>>
                \/ /\ _b[1] = BinData
                   /\ _b[10] = Column
                   /\ DeclaredSize(_b) >= 0
                   /\ DeclaredSize(_b) <= BSONObjMaxUserSize
                   /\ FinalByte(_b, hist[1].tail) = 0
       /\ ~hist[1].ok => col = DefaultColumn

\* a BinData element of subtype Column and of a size in range, refused for
\* its final byte
C18_Witness ==
  /\ LastOp = "construct"
  /\ ~hist[1].ok
  /\ _b[1] = BinData /\ _b[10] = Column
  /\ DeclaredSize(_b) = Len(_b)

\* sum of the sizes of the elements appended by the calls of h
RECURSIVE RawSizes(_)
RawSizes(h) == IF h = <<>> THEN 0 ELSE size(Head(h).elem) + RawSizes(Tail(h))

\* C19: the body of the column returned by done() is at most as long as the
\* appended elements together, plus the bytes of the framing (the BinData
\* header) and of the terminator.
C19_NonWorsening ==
  (LastOp = "done" /\ Len(Dones(hist)) = 1)
    => Len(Body(col)) <= RawSizes(Appends(hist)) + bodyOffset(col) + 1

\* the instruction written as the bytes b
Written(b) == parse(b, 0).insn

\* the length of the instruction of the opposite sign for the delta of q
OppositeLen(q) ==
  Len(InsnBytes(Instruction(IF kind(q) = SetDelta THEN SetNegDelta ELSE SetDelta,
                            Neg64(deltaArg(q)))))

\* C20: no instruction the Builder writes starts with the prefix byte 0x80;
\* a SetDelta or SetNegDelta it writes has a magnitude with a non-zero low
\* nibble unless its shift is 15, and is not longer than the instruction of
\* the opposite sign for the same delta.
C20_Minimal ==
  \A i \in 1..Len(written) :
    written[i].w \in {"Skip", "Copy", "Delta", "SetDelta", "SetNegDelta"}
      => /\ written[i].bytes[1] # 128
         /\ written[i].w \in {"SetDelta", "SetNegDelta"}
              => LET q == Written(written[i].bytes)
                 IN  /\ (q._op % 16 < 15) => (Add64(q._prefix, One64)[1] % 16 # 0)
                     /\ Len(written[i].bytes) <= OppositeLen(q)

\* a SetNegDelta written with a shift, shorter than the SetDelta for its delta
C20_Witness ==
  \E i \in 1..Len(written) :
    /\ written[i].w = "SetNegDelta"
    /\ Written(written[i].bytes)._op % 16 > 0
    /\ Len(written[i].bytes) < OppositeLen(Written(written[i].bytes))

\* the call that the step made, and the writes of kind SetDelta/SetNegDelta
\* and Literal among the writes w
LastCall(h) == h[Len(h)]
SetDeltas(w) == SelectSeq(w, LAMBDA x : x.w \in {"SetDelta", "SetNegDelta"})
Literals(w) == SelectSeq(w, LAMBDA x : x.w = "Literal")

LiteralBytes(e) == <<e.type, 0>> \o e.value

\* sixteen copies of one value at the indices 0..15, then one done()
SixteenCopies ==
  /\ LastOp = "done"
  /\ Len(Appends(hist)) = 16
  /\ hist[1].step = Zero64

\* C22 as stated: for sixteen equal values the body is the literal, a Copy(15)
\* instruction of two bytes, and the terminator.
C22_TwoByteCopy ==
  SixteenCopies
    => \E x \in {SubSeq(Body(col), 2 + valuesize(hist[1].elem) + 1, Len(Body(col)) - 1)} :
         /\ Body(col) = LiteralBytes(hist[1].elem) \o x \o <<0>>
         /\ Len(x) = 2
         /\ parse(x, 0).ok /\ parse(x, 0).next = 2
         /\ kind(parse(x, 0).insn) = Copy
         /\ countArg(parse(x, 0).insn) = U64(15)

\* C22: for sixteen equal values the body is the literal, the one byte 0x4F
\* (Copy with prefix 0 and count nibble 15), and the terminator.
C22_Repetition ==
  SixteenCopies
    => /\ Body(col) = LiteralBytes(hist[1].elem) \o <<79>> \o <<0>>
       /\ countArg(parse(<<79>>, 0).insn) = U64(15)
       /\ kind(parse(<<79>>, 0).insn) = Copy

C22_Witness == SixteenCopies /\ hist[1].elem = D72

\* the delta a parsed SetDelta or SetNegDelta sets
SignedDelta(q) == IF kind(q) = SetNegDelta THEN Neg64(deltaArg(q)) ELSE deltaArg(q)

\* two or more values at the indices 0, 1, ... with one delta between
\* neighbours that is not zero and whose instruction is shorter than the
\* elements, then one done()
ConstantDeltaRun ==
  /\ LastOp = "done"
  /\ Len(Appends(hist)) >= 2
  /\ hist[1].step # Zero64
  /\ \A i \in 2..Len(Appends(hist)) :
       /\ calculateDelta(hist[i - 1].elem, hist[i].elem) = hist[1].step
       /\ Len(InsnBytes(makeDelta(hist[1].step))) < size(hist[i].elem)

\* the body b is the literal lit, one SetDelta/SetNegDelta for d, one
\* Delta(n - 1) when n >= 2, and the terminator
DeltaRunBody(b, lit, d, n, p1, p2) ==
  /\ Len(b) > Len(lit)
  /\ SubSeq(b, 1, Len(lit)) = lit
  /\ p1.ok
  /\ kind(p1.insn) \in {SetDelta, SetNegDelta}
  /\ SignedDelta(p1.insn) = d
  /\ IF n >= 2
       THEN /\ p2.ok
            /\ kind(p2.insn) = Delta
            /\ countArg(p2.insn) = U64(n - 1)
            /\ Len(b) = p2.next + 1
       ELSE Len(b) = p1.next + 1
  /\ b[Len(b)] = 0

\* C23: for n + 1 >= 2 values v, v + d, ..., v + n * d at consecutive indices
\* with a non-zero, profitable delta d, done() leaves the literal v, one
\* SetDelta/SetNegDelta for d, one Delta(n - 1) when n >= 2 and the
\* terminator, and iteration yields the values appended.
C23_RepeatedDelta ==
  ConstantDeltaRun
    => /\ DeltaRunBody(Body(col), LiteralBytes(hist[1].elem), hist[1].step,
                       Len(Appends(hist)) - 1,
                       parse(Body(col), 2 + valuesize(hist[1].elem)),
                       parse(Body(col),
                             parse(Body(col), 2 + valuesize(hist[1].elem)).next))
       /\ \A g \in Garbage : Yields(col, Appends(hist), g)

\* the integers 10..14
C23_Witness ==
  /\ ConstantDeltaRun
  /\ hist[1].elem = I10
  /\ hist[1].step = One64
  /\ Len(Appends(hist)) = 5

\* the writes w are the flush of the deferrals d: one Copy(d) for d > 0, one
\* Delta(-d) for d < 0, nothing for d = 0
IsFlush(w, d) ==
  IF d = 0 THEN w = <<>>
  ELSE /\ Len(w) = 1
       /\ w[1].w = (IF d > 0 THEN "Copy" ELSE "Delta")
       /\ countArg(Written(w[1].bytes)) = U64(IF d > 0 THEN d ELSE 0 - d)

\* the writes w encode elem after a gap, for the Builder fields last and
\* delta before the call and the deferrals dfr after it
IsElement(w, elem, last, delta, dfr) ==
  IF binaryEqualValues(elem, last) /\ ~eoo(last) THEN w = <<>> /\ dfr = 1
  ELSE IF calculateDelta(last, elem) # Zero64 /\ calculateDelta(last, elem) = delta
    THEN w = <<>> /\ dfr = -1
    ELSE /\ Len(w) = 1
         /\ w[1].w \in {"Literal", "SetDelta", "SetNegDelta"}
         /\ dfr = 0

\* positions of the Skip writes in w
SkipsAt(w) == {i \in 1..Len(w) : w[i].w = "Skip"}

\* append of elem at gap positions past the next index wrote w
GapEncoded(w, gap, elem) ==
  /\ Cardinality(SkipsAt(w)) = 1
  /\ \A k \in SkipsAt(w) :
       /\ countArg(Written(w[k].bytes)) = U64(gap)
       /\ IsFlush(SubSeq(w, 1, k - 1), _deferrals)
       /\ IsElement(SubSeq(w, k + 1, Len(w)), elem, _last, _delta, _deferrals')

\* the iteration r yielded elements at the indices of the appends s and
\* nowhere else, and each element appended past a gap comes back as appended
\* when the element before it did
YieldedIndices(r, s) ==
  /\ r.ok
  /\ [i \in 1..Len(r.pairs) |-> r.pairs[i].index] = [i \in 1..Len(s) |-> s[i].index]
  /\ \A i \in 2..Len(s) :
       (s[i].index > s[i - 1].index + 1
          /\ binaryEqualValues(r.pairs[i - 1].elem, s[i - 1].elem))
       => binaryEqualValues(r.pairs[i].elem, s[i].elem)

\* the lookup l of position pos gave EOO exactly when s has no append there
AbsentIfSkipped(l, s, pos) ==
  /\ l.ok
  /\ eoo(l.elem) <=> ~(\E i \in 1..Len(s) : s[i].index = pos)

\* iteration of column c yields elements at the indices of the appends s and
\* nowhere else, and c[pos] is EOO exactly at the other positions
GapDecoded(c, s, g) ==
  /\ YieldedIndices(Iterate(c, <<>>, g), s)
  /\ \A pos \in 0..(MaxIndex + 1) : AbsentIfSkipped(Lookup(c, <<>>, g, pos), s, pos)

\* the appends s leave at least one position out
HasGap(s) == \E i \in 1..(Len(s) - 1) : s[i + 1].index > s[i].index + 1

\* 42 at the indices 0, 5 and 6
I42 == [type |-> NumberInt, name |-> <<>>, value |-> <<42, 0, 0, 0>>]
GapExample ==
  <<[op |-> "append", index |-> 0, elem |-> I42],
    [op |-> "append", index |-> 5, elem |-> I42],
    [op |-> "append", index |-> 6, elem |-> I42]>>

\* a run 0, 1, _, 2 followed by 0: the element appended past the gap is
\* deferred as a Delta when the next append changes the delta
GapRun ==
  <<[op |-> "append", index |-> 0, elem |-> I0],
    [op |-> "append", index |-> 1, elem |-> I1],
    [op |-> "append", index |-> 3, elem |-> I2],
    [op |-> "append", index |-> 4, elem |-> I0]>>

\* C24: an append at g > 0 positions past the next index, after an earlier
\* element, writes the flush of the pending deferrals, then one Skip(g), then
\* the element (nothing but a deferred copy when it equals the last value),
\* and leaves the next index behind the element; the column done() returns
\* for appends from index 0 yields the appended elements at exactly the
\* appended indices and looks up as EOO at the skipped ones.  42 at 0, 5, 6
\* gives the literal 42, Skip(4), Copy(2) and the terminator.
C24_Gaps ==
  [][/\ (hist' # hist /\ LastCall(hist').op = "append"
           /\ Appends(hist) # <<>> /\ LastCall(hist').index > _index)
        => /\ GapEncoded(written', LastCall(hist').index - _index, LastCall(hist').elem)
           /\ _index' = LastCall(hist').index + 1
     /\ (hist' # hist /\ LastCall(hist').op = "done" /\ Dones(hist) = <<>>
           /\ Appends(hist) # <<>> /\ hist[1].index = 0 /\ HasGap(Appends(hist)))
        => \A g \in Garbage : GapDecoded(col', Appends(hist), g)
     /\ hist = <<>>
        => /\ Body(BuiltColumn(GapExample)) = LiteralBytes(I42) \o <<36, 66, 0>>
           /\ Lookup(BuiltColumn(GapExample), <<>>, 0, 3).elem = EOO
           /\ Lookup(BuiltColumn(GapExample), <<>>, 0, 6).elem = I42
           /\ \A g \in Garbage : GapDecoded(BuiltColumn(GapRun), GapRun, g)]_vars

\* the delta the decoder holds after the SetDelta/SetNegDelta bytes b
DecodedDelta(b) ==
  IF kind(parse(b, 0).insn) = SetNegDelta THEN Neg64(deltaArg(parse(b, 0).insn))
  ELSE deltaArg(parse(b, 0).insn)

\* the delta of the last SetDelta/SetNegDelta among the writes w, or set
RECURSIVE LastSetDelta(_, _)
LastSetDelta(w, set) ==
  IF w = <<>> THEN set
  ELSE IF w[Len(w)].w \in {"SetDelta", "SetNegDelta"} THEN DecodedDelta(w[Len(w)].bytes)
  ELSE LastSetDelta(SubSeq(w, 1, Len(w) - 1), set)

\* the call o on the Builder B
Called(B, o) ==
  IF o.op = "done" THEN done([B EXCEPT !.log = <<>>])
  ELSE append([B EXCEPT !.log = <<>>], o.index, o.elem)

\* the call o on B left its element to a later Delta instruction
DeferredAsDelta(B, o) ==
  /\ o.op = "append"
  /\ Called(B, o)._deferrals < 0
  /\ \/ Called(B, o)._deferrals # B._deferrals
     \/ \E i \in 1..Len(Called(B, o).log) : Called(B, o).log[i].w = "Delta"

\* the deltas of the appends that wait for a Delta instruction (pend) and the
\* delta of the last SetDelta/SetNegDelta written (set), after the calls s on
\* a Builder B that stood at pend and set
RECURSIVE DeltaRun(_, _, _, _)
DeltaRun(B, pend, set, s) ==
  IF s = <<>> THEN [pend |-> pend, set |-> set]
  ELSE DeltaRun(Called(B, Head(s)),
                (IF \E i \in 1..Len(Called(B, Head(s)).log) :
                        Called(B, Head(s)).log[i].w = "Delta"
                   THEN <<>> ELSE pend)
                  \o (IF DeferredAsDelta(B, Head(s))
                        THEN <<calculateDelta(B._last, Head(s).elem)>> ELSE <<>>),
                LastSetDelta(Called(B, Head(s)).log, set),
                Tail(s))

\* every Delta among the writes w counts the appends of run.pend, and each of
\* them has the delta of the SetDelta/SetNegDelta last written before it
DeltasStandFor(w, run) ==
  \A i \in 1..Len(w) :
    w[i].w = "Delta"
      => /\ countArg(parse(w[i].bytes, 0).insn) = IntTo64(Len(run.pend))
         /\ \A j \in 1..Len(run.pend) :
              run.pend[j] = LastSetDelta(SubSeq(w, 1, i - 1), run.set)

\* C25: a Delta(n) the Builder writes stands for n deferred appends, and the
\* delta of each of them is the delta of the SetDelta or SetNegDelta last
\* written before that Delta(n), which is the decoder's current delta there.
C25_DeltaInvariant ==
  [][hist' # hist
       => DeltasStandFor(written', DeltaRun(Builder(<<>>, FieldName), <<>>, Zero64, hist))]_vars

\* a < b as unsigned 64-bit numbers
Less64(a, b) ==
  \E i \in 1..8 : a[i] < b[i] /\ \A j \in (i + 1)..8 : a[j] = b[j]

\* 128^e as a 64-bit number, e in 0..9
Pow128(e) == [i \in 1..8 |-> IF i = (7 * e) \div 8 + 1 THEN 2 ^ ((7 * e) % 8) ELSE 0]

\* floor(log128(p)) of a 64-bit p >= 1
FloorLog128(p) ==
  CHOOSE e \in 0..9 :
    /\ ~Less64(p, Pow128(e))
    /\ e = 9 \/ Less64(p, Pow128(e + 1))

\* the instruction of the constructor or makeDelta call that precedes the
\* append at hist[i]
Built(i) == hist[i - 1].insn

\* C26 as stated: size() and the number of bytes append writes are
\* 1 + floor(log128(p)) for a prefix p >= 1, and 1 for p = 0.
C26_SizeLog128 ==
  \A i \in 1..Len(hist) :
    /\ hist[i].op \in {"Instruction", "makeDelta"}
         => hist[i].size = IF hist[i].insn._prefix = Zero64 THEN 1
                           ELSE 1 + FloorLog128(hist[i].insn._prefix)
    /\ hist[i].op = "append"
         => Len(written[1].bytes) = IF Built(i)._prefix = Zero64 THEN 1
                                    ELSE 1 + FloorLog128(Built(i)._prefix)

\* C26: for every non-literal instruction with prefix p, size() and the
\* number of bytes append writes are both 1 for p = 0 and 2 + floor(log128(p))
\* for p >= 1: the opcode byte and one byte for each base-128 digit of p.
C26_InstructionSize ==
  \A i \in 1..Len(hist) :
    /\ hist[i].op \in {"Instruction", "makeDelta"}
         => hist[i].size = IF hist[i].insn._prefix = Zero64 THEN 1
                           ELSE 2 + FloorLog128(hist[i].insn._prefix)
    /\ hist[i].op = "append"
         => /\ Len(written[1].bytes) = hist[i - 1].size
            /\ _b = SubSeq(_b, 1, written[1].at) \o written[1].bytes
            /\ \A j \in 1..(Len(written[1].bytes) - 1) : written[1].bytes[j] >= 128
            /\ written[1].bytes[Len(written[1].bytes)] = Built(i)._op

\* a Copy with a three-digit prefix (count 262144) written to the buffer
C26_Witness ==
  /\ LastOp = "append"
  /\ hist[1].op = "Instruction" /\ hist[1].kind = Copy
  /\ hist[1].insn._prefix = U64(16384)
  /\ hist[1].size = 4 /\ Len(written[1].bytes) = 4

\* a SetDelta built for 0x2'0000'0000'0000 (2^49) and appended
SetDelta2Pow49 ==
  /\ Len(hist) >= 2
  /\ hist[1].op = "Instruction" /\ hist[1].kind = SetDelta
  /\ hist[1].arg = <<0, 0, 0, 0, 0, 0, 2, 0>>
  /\ hist[2].op = "append"

\* C27 as stated: the SetDelta for 0x2'0000'0000'0000 has prefix 0 and shift
\* nibble 12 and is written as one opcode byte.
C27_OneByte ==
  SetDelta2Pow49
    => /\ hist[1].insn._prefix = Zero64
       /\ hist[1].insn._op % 16 = 12
       /\ Len(written[1].bytes) = 1

\* C27: the SetDelta built for 0x2'0000'0000'0000 has prefix 1 (the factor 2,
\* less one) and shift nibble 12 and is written as the two bytes 0x81 0x6C,
\* from which deltaArg gives the delta back; the delta with prefix 0, shift
\* 12 and one byte (0x6C) is 0x1'0000'0000'0000.
C27_TwoBytes ==
  /\ SetDelta2Pow49
       => /\ hist[1].insn._prefix = One64
          /\ hist[1].insn._op % 16 = 12
          /\ written[1].bytes = <<129, 108>>
          /\ deltaArg(parse(written[1].bytes, 0).insn) = hist[1].arg
  /\ (Len(hist) >= 2 /\ hist[1].op = "Instruction" /\ hist[1].kind = SetDelta
        /\ hist[1].arg = <<0, 0, 0, 0, 0, 0, 1, 0>> /\ hist[2].op = "append")
       => /\ hist[1].insn._prefix = Zero64
          /\ written[1].bytes = <<108>>

C27_Witness == SetDelta2Pow49 /\ LastOp = "append" /\ Len(written[1].bytes) = 2

\* the bytes append writes for Instruction(k, arg)
Serialised(k, arg) == InsnBytes(Instruction(k, arg))

\* C28: for a non-zero delta d, makeDelta(d) is SetNegDelta(-d) when that
\* serialises to fewer bytes than SetDelta(d) and SetDelta(d) otherwise, the
\* bytes written are those of the shorter form, and the decoder that parses
\* and executes them holds the delta d, modulo 2^64.
C28_SignChoice ==
  (hist # <<>> /\ hist[1].op = "makeDelta")
    => /\ hist[1].kind
            = IF Len(Serialised(SetNegDelta, Neg64(hist[1].arg)))
                   < Len(Serialised(SetDelta, hist[1].arg))
                THEN SetNegDelta ELSE SetDelta
       /\ Len(hist) >= 2
            => /\ written[1].bytes \in {Serialised(SetDelta, hist[1].arg),
                                        Serialised(SetNegDelta, Neg64(hist[1].arg))}
               /\ Len(written[1].bytes) <= Len(Serialised(SetDelta, hist[1].arg))
               /\ Len(written[1].bytes) <= Len(Serialised(SetNegDelta, Neg64(hist[1].arg)))
       /\ LastOp = "execute" => (it.ok /\ it._delta = hist[1].arg)

\* makeDelta(-16) came out as SetNegDelta(16) and the decoder executed it
C28_Witness ==
  /\ LastOp = "execute"
  /\ hist[1].op = "makeDelta" /\ hist[1].arg = Neg64(U64(16))
  /\ hist[1].kind = SetNegDelta
  /\ written[1].bytes = <<81>>
  /\ it._delta = Neg64(U64(16))

\* C29: Instruction::parse at the bytes append wrote for an instruction
\* built with kind Skip, Delta or Copy and a count, or with kind SetDelta or
\* SetNegDelta and a non-zero argument, returns an instruction of the same
\* kind whose countArg() or deltaArg() is the argument it was built from,
\* and a pointer advanced by the number of bytes written, which is size()
\* as it was before the append.
C29_ParseRoundTrip ==
  (LastOp = "parse" /\ hist[1].op = "Instruction")
    => /\ kind(hist[3].insn) = hist[1].kind
       /\ hist[1].kind \in {Skip, Delta, Copy} => countArg(hist[3].insn) = hist[1].arg
       /\ hist[1].kind \in {SetNegDelta, SetDelta} => deltaArg(hist[3].insn) = hist[1].arg
       /\ hist[3].next - written[1].at = Len(written[1].bytes)
       /\ hist[3].next - written[1].at = hist[1].size
       /\ hist[3].next = Len(_b)
       /\ InsnSize(hist[2].insn) = 1

\* a Skip with the count 2^64 - 1 (nine prefix bytes) written and parsed back
C29_Witness ==
  /\ LastOp = "parse"
  /\ hist[1].op = "Instruction" /\ hist[1].kind = Skip
  /\ hist[1].arg = Neg64(One64)
  /\ Len(written[1].bytes) = 10
  /\ countArg(hist[3].insn) = Neg64(One64)

\* C30: an applyDelta that returns, for a base with a value of 1 to 8 bytes,
\* gives an element with the type tag of base, an empty name and a value as
\* long as that of base, which holds the low bytes, little-endian, of base's
\* value zero-extended to 64 bits plus delta, modulo 2^64.
C30_ApplyDelta ==
  \A i \in 1..Len(hist) :
    (hist[i].op = "applyDelta" /\ valuesize(hist[i].base) \in 1..8)
      => /\ hist[i].elem.type = hist[i].base.type
         /\ hist[i].elem.name = <<>>
         /\ valuesize(hist[i].elem) = valuesize(hist[i].base)
         /\ hist[i].elem.value
              = SubSeq(Add64(hist[i].base.value \o Fill(8 - valuesize(hist[i].base), 0),
                             hist[i].delta),
                       1, valuesize(hist[i].base))

\* -1 added to the int32 0xFFFF gave 0xFFFE, and 1 added to that, in a
\* second cell, gave 0xFFFF back
C30_Witness ==
  /\ Len(hist) = 2
  /\ hist[1].op = "applyDelta" /\ hist[2].op = "applyDelta"
  /\ hist[1].base.value = <<255, 255, 0, 0>> /\ hist[1].delta = Neg64(One64)
  /\ hist[2].base = hist[1].elem /\ hist[2].delta = One64
  /\ hist[2].deltaIndex = 1
  /\ hist[2].elem.value = <<255, 255, 0, 0>>

\* base and modified have the same type and a value of the same length,
\* between 1 and 8 bytes
DeltaCompatible(base, modified) ==
  /\ base.type = modified.type
  /\ valuesize(base) = valuesize(modified)
  /\ valuesize(base) \in 1..maxValueSize

C35_AppendOnly ==
  [][hist' # hist /\ LastCall(hist').op \in {"applyDelta", "failed"}
       => /\ Len(store') >= Len(store)
          /\ SubSeq(store', 1, Len(store)) = store
          /\ (LastCall(hist').op = "applyDelta" /\ LastCall(hist').deltaIndex = Len(store))
               => Len(store') = Len(store) + 1
          /\ LastCall(hist').deltaIndex < Len(store) => store' = store]_vars

\* two applications on cell 0: the second found the cell and added none
C35_Witness ==
  /\ Len(hist) = 2
  /\ hist[1].op = "applyDelta" /\ hist[2].op = "applyDelta"
  /\ hist[1].deltaIndex = 0 /\ hist[2].deltaIndex = 0
  /\ Len(store) = 1

\* the step is an append of an element binary-equal to the last one, which
\* is not EOO
CopyStep ==
  /\ hist' # hist
  /\ LastCall(hist').op = "append"
  /\ binaryEqualValues(LastCall(hist').elem, _last)
  /\ ~eoo(_last)

\* C32 as stated: the append of a copy writes nothing but the flush of a
\* pending Delta run, adds exactly 1 to the deferral counter, adds 1 to the
\* next index and leaves last and the delta as they were.
C32_CopyAddsOne ==
  [][CopyStep
       => /\ IsFlush(written', IF _deferrals < 0 THEN _deferrals ELSE 0)
          /\ _deferrals' = _deferrals + 1
          /\ _index' = _index + 1
          /\ _last' = _last /\ _delta' = _delta]_vars

\* C32: the append, at the next index, of an element binary-equal to the
\* last one (not EOO) writes nothing but the flush of a pending Delta run,
\* leaves the deferral counter at 1 after such a flush and one above its old
\* value otherwise, adds 1 to the next index and leaves last and the delta
\* as they were; the buffer grows by the bytes of the flush only.
C32_CopyStep ==
  [][(CopyStep /\ LastCall(hist').index = _index)
       => /\ IsFlush(written', IF _deferrals < 0 THEN _deferrals ELSE 0)
          /\ _b' = _b \o (IF written' = <<>> THEN <<>> ELSE written'[1].bytes)
          /\ _deferrals' = (IF _deferrals < 0 THEN 1 ELSE _deferrals + 1)
          /\ _index' = _index + 1
          /\ _last' = _last /\ _delta' = _delta]_vars

\* a copy appended while a Delta run was pending: Delta written, counter at 1
C32_Witness ==
  /\ LastOp = "append"
  /\ Len(hist) = 4
  /\ hist[3].op = "append"
  /\ hist[4].elem = hist[3].elem /\ hist[4].index = hist[3].index + 1
  /\ Len(written) = 1 /\ written[1].w = "Delta"
  /\ _deferrals = 1

\* the writes w hold an instruction of kind k
Wrote(w, k) == \E i \in 1..Len(w) : w[i].w = k

\* the call o wrote no literal, SetDelta, SetNegDelta or terminator for its
\* element: the element waits for a Copy or a Delta
Deferred(o, w) ==
  /\ o.op = "append"
  /\ ~\E i \in 1..Len(w) : w[i].w \in {"Literal", "SetDelta", "SetNegDelta", "EOO"}

\* the counts of pending copies and deltas after a call o with the writes w,
\* made with the last element `last`, from the counts c and d before it
CountCopies(c, o, w, last) ==
  (IF Wrote(w, "Copy") THEN 0 ELSE c)
    + (IF Deferred(o, w) /\ binaryEqualValues(o.elem, last) THEN 1 ELSE 0)

CountDeltas(d, o, w, last) ==
  (IF Wrote(w, "Delta") THEN 0 ELSE d)
    + (IF Deferred(o, w) /\ ~binaryEqualValues(o.elem, last) THEN 1 ELSE 0)

\* the numbers of appends deferred as copies and as deltas and not yet
\* flushed, after the calls s on the Builder B that stood at c and d
RECURSIVE Pending(_, _, _, _)
PendingAfter(B1, c, d, o, last, rest) ==
  Pending(B1, CountCopies(c, o, B1.log, last), CountDeltas(d, o, B1.log, last), rest)

Pending(B, c, d, s) ==
  IF s = <<>> THEN [copies |-> c, deltas |-> d]
  ELSE PendingAfter(Called(B, Head(s)), c, d, Head(s), B._last, Tail(s))

\* the counter moved as the discipline says: a copy is counted from a value
\* that is not negative and a delta from a value that is not positive, a
\* pending run of the other sign being written first
CounterStep(o, w, before, after, last) ==
  /\ (Deferred(o, w) /\ binaryEqualValues(o.elem, last))
       => /\ before < 0 => Wrote(w, "Delta")
          /\ after = 1 + (IF Wrote(w, "Copy") \/ Wrote(w, "Delta") THEN 0 ELSE before)
          /\ after - 1 >= 0
  /\ (Deferred(o, w) /\ ~binaryEqualValues(o.elem, last))
       => /\ before > 0 => Wrote(w, "Copy")
          /\ after = (IF Wrote(w, "Copy") \/ Wrote(w, "Delta") THEN 0 ELSE before) - 1
          /\ after + 1 <= 0

\* each Copy(n) and Delta(n) among the writes w counts the appends p holds
Flushed(w, p) ==
  \A i \in 1..Len(w) :
    /\ w[i].w = "Copy" => (p.copies >= 1 /\ countArg(Written(w[i].bytes)) = U64(p.copies))
    /\ w[i].w = "Delta" => (p.deltas >= 1 /\ countArg(Written(w[i].bytes)) = U64(p.deltas))

\* C33: the deferral counter is incremented only from a value >= 0 and
\* decremented only from a value <= 0, a run of the other sign being written
\* first; and each Copy(n) or Delta(n) written has as n the number of
\* appends deferred as copies, respectively as deltas, since the last flush,
\* which is the counter's magnitude at the flush.
C33_CounterDiscipline ==
  [][hist' # hist
       => /\ CounterStep(LastCall(hist'), written', _deferrals, _deferrals', _last)
          /\ (Wrote(written', "Copy") \/ Wrote(written', "Delta"))
               => \A p \in {Pending(Builder(<<>>, FieldName), 0, 0, hist)} :
                    /\ p.copies = 0 \/ p.deltas = 0
                    /\ _deferrals = p.copies - p.deltas
                    /\ Flushed(written', p)]_vars

\* a Copy(1) written by an append that was deferred as a delta: the counter
\* went from 1 through 0 to -1
C33_Witness ==
  /\ LastOp = "append"
  /\ Len(written) = 1 /\ written[1].w = "Copy" /\ written[1].bytes = <<65>>
  /\ _deferrals = -1

\* ---------------------------------------------- C34: a literal resets delta
\* how the element of the call o with the writes w, made with the last
\* element `last`, was encoded: as a literal, by a delta (a SetDelta or
\* SetNegDelta, or a place in a Delta run), or as k, the encoding before it,
\* when o was a copy
EncodedAs(k, o, w, last) ==
  IF Wrote(w, "Literal") \/ Wrote(w, "EOO") THEN "Literal"
  ELSE IF Wrote(w, "SetDelta") \/ Wrote(w, "SetNegDelta") THEN "Delta"
  ELSE IF Deferred(o, w) /\ ~binaryEqualValues(o.elem, last) THEN "Delta"
  ELSE k

\* the encoding of the last element that was not a copy, after the calls s
\* on the Builder B that stood at k
RECURSIVE LastEncoded(_, _, _)
LastEncodedAfter(B1, k, o, last, rest) ==
  LastEncoded(B1, EncodedAs(k, o, B1.log, last), rest)

LastEncoded(B, k, s) ==
  IF s = <<>> THEN k
  ELSE LastEncodedAfter(Called(B, Head(s)), k, Head(s), B._last, Tail(s))

\* the append of this step joins a Delta run: nothing is written for its
\* element, which differs from the last one
ExtendsDeltaRun ==
  /\ hist' # hist
  /\ Deferred(LastCall(hist'), written')
  /\ ~binaryEqualValues(LastCall(hist').elem, _last)

\* C34: a call that writes a literal leaves the current delta at 0, and the
\* first element encoded by a delta after a literal is introduced by a
\* SetDelta or SetNegDelta: an append joins a Delta run only when the last
\* element that was not a copy was itself encoded by a delta.
C34_LiteralResetsDelta ==
  [][/\ (hist' # hist /\ (Wrote(written', "Literal") \/ Wrote(written', "EOO")))
          => _delta' = Zero64
     /\ ExtendsDeltaRun
          => LastEncoded(Builder(<<>>, FieldName), "Literal", hist) = "Delta"]_vars

\* int32 0, 1, a null, and 0, 1 again: the second 1 has the delta that was in
\* force before the two literals and is written with a new SetDelta(1)
C34_Witness ==
  /\ Len(hist) = 5 /\ LastOp = "append"
  /\ \A i \in 1..5 : hist[i].index = i - 1
  /\ hist[1].elem = I0 /\ hist[2].elem = I1 /\ hist[3].elem = NullElem
  /\ hist[4].elem = I0 /\ hist[5].elem = I1
  /\ Len(written) = 1 /\ written[1].w = "SetDelta" /\ written[1].bytes = <<96>>
  /\ _deferrals = 0

\* ------------------------------------------------------ C36: nextDifferent
\* this step is a call of nextDifferent() that returned, on an iterator that
\* was not at end()
NextDifferentCall ==
  /\ it.ok /\ ~IterEq(it, end(col))
  /\ pairs' = Append(pairs, [index |-> it._index, elem |-> it._cur]) \o PassedOver(it)
  /\ it'.ok
  /\ \E g \in Garbage :
       /\ it' = nextDifferent(it, col, store, g).it
       /\ store' = nextDifferent(it, col, store, g).store

\* C36 as stated: the element the iterator points at after nextDifferent()
\* is never binary-equal to the element it pointed at before the call.
C36_NextDifferent ==
  [][NextDifferentCall => ~binaryEqualValues(it'._cur, it._cur)]_vars

\* --------------------------------- C37: nextDifferent and repeated stepping
\* the iterator and store after n executions of operator++ from st (a failed
\* invariant ends the stepping)
RECURSIVE Times(_, _, _, _)
Times(st, c, g, n) ==
  IF n = 0 \/ ~st.it.ok THEN st
  ELSE Times(Increment(st.it, c, st.store, g), c, g, n - 1)

\* nextDifferent() from the iterator and store of st on the column c agrees
\* with _count + 1 executions of ++ when _count > 0 and with one otherwise
SteppingAgrees(st, c, g) ==
  (st.it.ok /\ ~IterEq(st.it, end(c)))
    => nextDifferent(st.it, c, st.store, g)
         = Times(st, c, g, IF st.it._count > 0 THEN st.it._count + 1 ELSE 1)

\* C37: from an iterator that is not at end(), nextDifferent() leaves the
\* iterator (element, instruction pointer, count, index, delta index, delta)
\* and the delta store as _count + 1 executions of ++ do when _count > 0, and
\* as a single ++ does when _count <= 0: in every state of the iteration of a
\* raw stream, and from every position of the example column, whose Copy(99)
\* leaves up to 98 copies to pass over.
C37_RepeatedStepping ==
  /\ \A g \in Garbage : SteppingAgrees([it |-> it, store |-> store], col, g)
  /\ (pairs = <<>> /\ col = ColumnOf(<<16, 0, 0, 0, 0, 0>>))
       => \A g \in Garbage, k \in 0..MaxSteps :
            SteppingAgrees(Times([it |-> begin(ExampleColumn), store |-> <<>>],
                                 ExampleColumn, g, k),
                           ExampleColumn, g)

\* an iterator inside a Copy(2) with one copy left, after a Delta run: the
\* next nextDifferent() stands for two executions of ++
C37_Witness ==
  /\ it.ok /\ ~IterEq(it, end(col))
  /\ it._count = 1
  /\ it._deltaIndex = 1
  /\ Len(pairs) = 2

\* ------------------------------------------------------ C38: end of stream
\* no element yielded by the iteration r is EOO: the iterator that has
\* fetched a zero opcode byte compares equal to end() and is not dereferenced
StopsAtZero(r) == \A i \in 1..Len(r.pairs) : ~eoo(r.pairs[i].elem)

\* C38 as stated: in the iteration of a column the Builder returned, the
\* fetch of a zero byte as an opcode ends the iteration, also when that byte
\* is not the last byte of the body.
C38_ZeroEndsIteration ==
  LastOp = "done" => \A g \in Garbage : StopsAtZero(Iterate(col, <<>>, g))

\* ------------------------------- C39: what is never encoded by a delta
\* calculateDelta does not take the element e against the last element
NotDeltaCompatible(e, last) ==
  \/ valuesize(e) > maxValueSize \/ valuesize(e) = 0
  \/ e.type # last.type \/ valuesize(e) # valuesize(last)

\* the call o with the writes w encoded its element by a delta: it wrote a
\* SetDelta or SetNegDelta, or left the element to a Delta run
DeltaEncoded(o, w, last) ==
  \/ Wrote(w, "SetDelta") \/ Wrote(w, "SetNegDelta")
  \/ Deferred(o, w) /\ ~binaryEqualValues(o.elem, last)

\* the first append of the history h was made at index 0
FromZero(h) == Appends(h) # <<>> /\ Appends(h)[1].index = 0

\* C39: an appended element with more than 8 or no payload bytes, or of
\* another type or payload length than last, is not encoded by a delta: a
\* literal is written for it, or it joins a Copy run, being binary-equal to
\* last. Every element that is encoded by a delta, and so passed to
\* Elem::store, has 1 to 8 payload bytes, and the iteration of the column
\* that done() returns after up to MixedDecodeLen appends, the first one at
\* index 0, fails no invariant.
C39_NoDeltaOutsideSizes ==
  [][/\ (hist' # hist /\ LastCall(hist').op = "append")
          => \A o \in {LastCall(hist')} :
               /\ NotDeltaCompatible(o.elem, _last)
                    => /\ ~DeltaEncoded(o, written', _last)
                       /\ \/ Wrote(written', "Literal")
                          \/ Deferred(o, written') /\ binaryEqualValues(o.elem, _last)
               /\ DeltaEncoded(o, written', _last)
                    => /\ valuesize(o.elem) \in 1..maxValueSize
                       /\ _last' = o.elem
     /\ (hist' # hist /\ LastCall(hist').op = "done" /\ FromZero(hist)
           /\ Len(hist) <= MixedDecodeLen)
          => \A g \in Garbage : Iterate(col', <<>>, g).ok]_vars

\* an ObjectId appended after another ObjectId that differs in its first
\* byte: same type and length, 12 payload bytes, written as a literal
C39_Witness ==
  /\ Len(hist) = 3 /\ LastOp = "append"
  /\ hist[1].elem = I0 /\ hist[2].elem = OidElem /\ hist[3].elem = OidNext
  /\ Len(written) = 1 /\ written[1].w = "Literal"
  /\ Len(written[1].bytes) = 14
  /\ _last = OidNext

\* ----------------------------------------- C40: the Builder's output, by piece
\* the piece p of the write log is well-formed: a Copy, Delta or Skip counts
\* at least 1, a SetDelta or SetNegDelta has a delta that is not 0, and the
\* byte in the opcode position (the last byte of an instruction, the type
\* byte of a literal) has its high bit clear
WellFormedPiece(p) ==
  IF p.w \in {"Literal", "EOO"} THEN p.bytes[1] < 128
  ELSE /\ p.bytes[Len(p.bytes)] < 128
       /\ \A k \in 1..(Len(p.bytes) - 1) : p.bytes[k] >= 128
       /\ p.w \in {"Copy", "Delta", "Skip"} => countArg(Written(p.bytes)) # Zero64
       /\ p.w \in {"SetDelta", "SetNegDelta"} => deltaArg(Written(p.bytes)) # Zero64

\* C40 as stated: every piece the Builder writes is well-formed, and the
\* iteration of the column done() returns, for appends from index 0, fails
\* no check of the decoder.
C40_WellFormedOutput ==
  /\ \A i \in 1..Len(written) : WellFormedPiece(written[i])
  /\ (LastOp = "done" /\ Len(Dones(hist)) = 1 /\ FromZero(hist))
       => \A g \in Garbage : Iterate(col, <<>>, g).ok

====
